---- MODULE Spec2Model ----
(***************************************************************************)
(* State-machine model of the Wi-Fi throughput bench automation            *)
(* (gary910011/autotrade): the remote channel (core/dut.py), the 2.4 GHz   *)
(* rate classifier and the AP/STA throughput runners (core/iperf.py), the  *)
(* sweep orchestrator (main.py), the environment preparation tool with its *)
(* GUI supervisor (restore_asus_cfg.py, GUI.py), the control clients of   *)
(* the peer router (core/asus_ap.py, core/asus_pc.py), and the AP and STA  *)
(* bring-up of the DUT (core/wifi_channel.py, core/sta.py).                *)
(*                                                                         *)
(* Every sub-system has its own variables and its own specification; a     *)
(* specification leaves the variables of the other sub-systems unchanged.  *)
(***************************************************************************)
EXTENDS Integers, Sequences, FiniteSets, TLC

VARIABLES
    \* ---- run_mssh_once (core/dut.py) ----
    once_pc,        \* position inside run_mssh_once / _kill_process_tree
    ignore_error,   \* the ignore_error argument
    p_state,        \* the spawned mssh process: "none" | "running" | "exited"
    returncode,     \* p.returncode once the process has exited
    p_output,       \* what the remote command writes to the merged pipe
    out,            \* the local variable `out`
    signals,        \* signals sent to the spawned process, in order
    timed_out,      \* the first communicate() raised TimeoutExpired
    polled_dead,    \* _kill_process_tree found p.poll() is not None
    wait_result,    \* p.wait(timeout=2): "none" | "exited" | "expired"
    once_result,    \* how the call completed
    \* ---- 2.4 GHz rate classification (core/iperf.py) ----
    rate_pc,        \* "input" | "classified" | "built" | "rejected"
    rate_value,     \* the numeric rate value handed to the classifier
    rate_mode,      \* the PHY mode it was classified as
    rate_cmd,       \* the wl 2g_rate command built from it
    \* ---- sweep orchestrator (main.py) and runners (core/iperf.py) ----
    mode,           \* args.mode
    band,           \* args.band
    bw_list,        \* args.bw
    ch_list,        \* args.ch
    mcs_arg,        \* args.mcs, a sequence of characters
    main_pc,        \* position of the orchestrator
    bi,             \* index of the current width in bw_list
    ci,             \* index of the current channel in ch_list
    mcs_list,       \* the rate plan of the current (width, channel) iteration
    mi,             \* index of the current rate in mcs_list
    first_mcs,      \* main.py first_mcs
    sessions,       \* the ASUS control sessions that are open
    pending_exc,    \* an exception is propagating out of main's try block
    abort_at,       \* the step that raised it
    AP_WARMED,      \* core/iperf.py _AP_WARMED
    STA_TX_READY,   \* core/iperf.py _STA_TX_READY
    attempt,        \* attempt counter of _asus_pc_set_rate_with_retry
    verify_seen,    \* what the last rate read-back of this TestPoint showed
    outer_try,      \* run_iperf_ap outer_try
    recover_try,    \* run_iperf_ap recover_try
    restart_calls,  \* calls of _dut_ap_restart_hostapd in this TestPoint
    saw_signature,  \* a real run of this TestPoint printed a connect failure
    tp_streams,     \* real-run transfers started in this TestPoint
    tp_result,      \* how the last TestPoint ended
    runs,           \* rate values of the TestPoints whose real run was started
    logs,           \* file names passed to open(.., "w") by TputLogger.create
    warmups,        \* keys of the warm-up transfers that were executed
    clean,          \* no device step has failed so far in this run
    skips,          \* TestPoints skipped because the STA link was down
    assoc_seen,     \* wait_sta_connected returned after this bring-up
    rx_cleared,     \* the receive side was set to "auto" and not locked since
    lock_cmds,      \* rate commands sent by _asus_pc_set_rate_with_retry
    sta_tried,      \* STA_RX: the link steps of this TestPoint and results
                    \* (a local count, forgotten when the runner is entered)
    \* ---- GUI supervisor (GUI.py) and environment tool ----
    plan_set,            \* self.plan is not None
    phase_seq,           \* self._phase_seq
    phase_idx,           \* self._phase_idx
    worker,              \* self.worker: 0 for None, else an index of workers
    env_preparing,       \* self.env_preparing
    env_process,         \* self.env_process: 0 for None, else an index of envs
    current_env_target,  \* self._current_env_target
    stop_enabled,        \* self.stop_button.isEnabled()
    start_enabled,       \* self.start_button.isEnabled()
    envs,                \* the restore_asus_cfg.py processes created so far
    workers,             \* the main.py processes created so far
    runs_started,        \* how often Start has begun a run
    dryrun_fail_seen,    \* this run was told of a tool that failed its dry-run
    launched_after_fail, \* a main.py process was launched after that
    stop_requested, \* Stop was clicked and Start has not been since
    \* ---- AsusAP.exec / AsusPC.exec (core/asus_ap.py, core/asus_pc.py) ----
    ex_client,      \* which client class the object is
    ssh,            \* self.ssh: "none" | "alive" | "dead" (transport inactive)
    exec_pc,        \* position inside exec
    exec_trace,     \* close / connect / command events of the current call
    exec_result,    \* "none" | "returned" | "raised"
    exec_calls,     \* how many exec calls were made
    \* ---- AP bring-up (core/wifi_channel.py) ----
    ap_pc,          \* position inside set_ap_channel_and_bw_band
    ap_band,        \* band
    ap_bw,          \* bw
    ap_ch,          \* ch
    cs_attempt,     \* attempt of _wl_set_chanspec
    last_raw,       \* the token read back by the last attempt ("" as <<>>)
    cs_matched,     \* what _match said about it
    conf_patched,   \* the runtime conf was copied and patched
    hostapd_started,\* "hostapd -B" was sent in this bring-up
    ap_polls,       \* iterations of the loop of _wait_ap_enabled
    ready_seen,     \* the last poll saw the control socket
    enabled_seen,   \* the last poll saw state=ENABLED
    ap_info,        \* "none" | "OK" (the dict returned) | "error" (raised)
    wl_primary,     \* "Primary channel" of the final "wl status", 0: none
    final_primary,  \* final_primary of the dict returned
    \* ---- STA bring-up (core/sta.py sta_prepare) ----
    prep_pc,        \* position inside sta_prepare
    prep_attempt,   \* attempt
    prep_killed,    \* _kill_wpa_supplicant ran in this attempt
    link_polls,     \* iterations of the loop of wait_connected
    link_raw,       \* what the last "iw <iface> link" printed
    info_connected, \* info.connected of this attempt
    ip_applied,     \* "ifconfig <iface> <ip>" was sent in this attempt
    ip_failed,      \* an address command has failed
    prep_result,    \* "none" | "returned" | "raised"
    \* ---- run_mssh_stream (core/dut.py) ----
    st_pc,          \* position of the generator
    st_p,           \* the process: "none" | "running" | "closing" | "exited"
    st_pipe,        \* lines printed and not yet read from p.stdout
    st_produced,    \* how many lines the process has printed
    st_yielded,     \* the lines the generator has yielded, in order
    kill_event,     \* the threading.Event is set
    st_signals,     \* the signals sent to the process group, in order
    st_leave        \* how the for loop was left: "eof" | "cancel" | "abandon"

onceVars == <<once_pc, ignore_error, p_state, returncode, p_output, out,
              signals, timed_out, polled_dead, wait_result, once_result>>

rateVars == <<rate_pc, rate_value, rate_mode, rate_cmd>>

argVars == <<mode, band, bw_list, ch_list, mcs_arg>>

loopVars == <<bi, ci, mcs_list, mi, first_mcs>>

excVars == <<pending_exc, abort_at>>

moduleVars == <<AP_WARMED, STA_TX_READY>>

retryVars == <<outer_try, recover_try, restart_calls, saw_signature, tp_streams>>

histVars == <<runs, logs, warmups, skips>>

linkVars == <<assoc_seen, rx_cleared, lock_cmds, sta_tried>>

sweepVars == <<argVars, main_pc, loopVars, sessions, excVars, moduleVars,
               attempt, verify_seen, retryVars, tp_result, histVars, clean,
               linkVars>>

guiVars == <<plan_set, phase_seq, phase_idx, worker, env_preparing,
             env_process, current_env_target, stop_enabled, start_enabled,
             envs, workers, runs_started, dryrun_fail_seen,
             launched_after_fail, stop_requested>>

execVars == <<ex_client, ssh, exec_pc, exec_trace, exec_result, exec_calls>>

apVars == <<ap_pc, ap_band, ap_bw, ap_ch, cs_attempt, last_raw, cs_matched,
            conf_patched, hostapd_started, ap_polls, ready_seen, enabled_seen,
            ap_info, wl_primary, final_primary>>

prepVars == <<prep_pc, prep_attempt, prep_killed, link_polls, link_raw,
              info_connected, ip_applied, ip_failed, prep_result>>

streamVars == <<st_pc, st_p, st_pipe, st_produced, st_yielded, kill_event,
                st_signals, st_leave>>

vars == <<onceVars, rateVars, sweepVars, guiVars, execVars, apVars, prepVars,
          streamVars>>

\* what an action of one sub-system leaves alone
notOnceVars ==
    <<rateVars, sweepVars, guiVars, execVars, apVars, prepVars,
      streamVars>>
notRateVars ==
    <<onceVars, sweepVars, guiVars, execVars, apVars, prepVars,
      streamVars>>
notSweepVars ==
    <<onceVars, rateVars, guiVars, execVars, apVars, prepVars,
      streamVars>>
notGuiVars ==
    <<onceVars, rateVars, sweepVars, execVars, apVars, prepVars,
      streamVars>>
notExecVars ==
    <<onceVars, rateVars, sweepVars, guiVars, apVars, prepVars,
      streamVars>>
notApVars ==
    <<onceVars, rateVars, sweepVars, guiVars, execVars, prepVars,
      streamVars>>
notStreamVars ==
    <<onceVars, rateVars, sweepVars, guiVars, execVars, apVars, prepVars>>
notPrepVars ==
    <<onceVars, rateVars, sweepVars, guiVars, execVars, apVars,
      streamVars>>

(***************************************************************************)
(* run_mssh_once and _kill_process_tree                                    *)
(***************************************************************************)

\* Python's None for a local that holds no string yet.
NoneVal == "<None>"

\* What a remote command can leave on the pipe: nothing, or some text.
OutputKinds == {"", "text"}

\* Exit statuses of the mssh process: success, command failure, ssh failure.
ExitCodes == {0, 1, 255}

NoResult == [kind |-> "none", val |-> ""]

\* `out or ""`
OrEmpty(o) == IF o = NoneVal \/ o = "" THEN "" ELSE o

OnceIdle ==
    /\ once_pc = "idle"
    /\ ignore_error = FALSE
    /\ p_state = "none"
    /\ returncode = 0
    /\ p_output = ""
    /\ out = NoneVal
    /\ signals = <<>>
    /\ timed_out = FALSE
    /\ polled_dead = FALSE
    /\ wait_result = "none"
    /\ once_result = NoResult

\* no wl 2g_rate command has been built
NoCmd == [flag |-> "", value |-> 0, bw |-> 0, sgi |-> FALSE, ldpc |-> FALSE]

RateIdle ==
    /\ rate_pc = "idle"
    /\ rate_value = 0
    /\ rate_mode = ""
    /\ rate_cmd = NoCmd

\* main.py has not been started
SweepIdle ==
    /\ mode = "" /\ band = "" /\ bw_list = <<>> /\ ch_list = <<>>
    /\ mcs_arg = <<>>
    /\ main_pc = "idle"
    /\ bi = 1 /\ ci = 1 /\ mcs_list = <<>> /\ mi = 1 /\ first_mcs = TRUE
    /\ sessions = {}
    /\ pending_exc = FALSE /\ abort_at = ""
    /\ AP_WARMED = {} /\ STA_TX_READY = FALSE
    /\ attempt = 1 /\ verify_seen = "none"
    /\ outer_try = 1 /\ recover_try = 0 /\ restart_calls = 0
    /\ saw_signature = FALSE /\ tp_streams = 0
    /\ tp_result = "none"
    /\ runs = <<>> /\ logs = <<>> /\ warmups = <<>> /\ skips = 0
    /\ clean = TRUE
    /\ assoc_seen = FALSE /\ rx_cleared = FALSE /\ lock_cmds = 0
    /\ sta_tried = <<>>

\* the GUI has not been opened
GuiIdle ==
    /\ plan_set = FALSE /\ phase_seq = <<>> /\ phase_idx = 0
    /\ worker = 0 /\ env_preparing = FALSE /\ env_process = 0
    /\ current_env_target = "None"
    /\ stop_enabled = FALSE /\ start_enabled = FALSE
    /\ envs = <<>> /\ workers = <<>>
    /\ runs_started = 0
    /\ dryrun_fail_seen = FALSE /\ launched_after_fail = FALSE
    /\ stop_requested = FALSE

\* no device control client has been created
ExecIdle ==
    /\ ex_client = "AsusAP" /\ ssh = "none" /\ exec_pc = "idle"
    /\ exec_trace = <<>> /\ exec_result = "none" /\ exec_calls = 0

\* no AP bring-up was started
ApIdle ==
    /\ ap_pc = "idle" /\ ap_band = "" /\ ap_bw = 0 /\ ap_ch = 0
    /\ cs_attempt = 0 /\ last_raw = <<>> /\ cs_matched = FALSE
    /\ conf_patched = FALSE /\ hostapd_started = FALSE
    /\ ap_polls = 0 /\ ready_seen = FALSE /\ enabled_seen = FALSE
    /\ ap_info = "none"
    /\ wl_primary = 0 /\ final_primary = 0

\* sta_prepare was not called
PrepIdle ==
    /\ prep_pc = "idle" /\ prep_attempt = 0 /\ prep_killed = FALSE
    /\ link_polls = 0 /\ link_raw = <<>> /\ info_connected = FALSE
    /\ ip_applied = FALSE /\ ip_failed = FALSE /\ prep_result = "none"

\* run_mssh_stream was not called
StreamIdle ==
    /\ st_pc = "idle" /\ st_p = "none"
    /\ st_pipe = <<>> /\ st_produced = 0 /\ st_yielded = <<>>
    /\ kill_event = FALSE /\ st_signals = <<>> /\ st_leave = "none"

\* subprocess.Popen(MSSH_BASE + [cmd], ..., start_new_session=True)
OnceInit ==
    /\ once_pc = "communicate"
    /\ ignore_error \in BOOLEAN
    /\ p_state = "running"
    /\ returncode = 0
    /\ p_output \in OutputKinds
    /\ out = NoneVal
    /\ signals = <<>>
    /\ timed_out = FALSE
    /\ polled_dead = FALSE
    /\ wait_result = "none"
    /\ once_result = NoResult
    /\ RateIdle
    /\ SweepIdle
    /\ GuiIdle
    /\ ExecIdle
    /\ ApIdle
    /\ PrepIdle
    /\ StreamIdle

\* The operating system: a running process ends, by itself or because a
\* SIGTERM it received made it end.  SIGKILL ends it in the kill step itself.
ProcExit ==
    /\ p_state = "running"
    /\ once_pc # "done"
    /\ p_state' = "exited"
    /\ returncode' \in (IF signals = <<>> THEN ExitCodes ELSE {-15})
    /\ UNCHANGED <<once_pc, ignore_error, p_output, out, signals, timed_out,
                   polled_dead, wait_result, once_result>>
    /\ UNCHANGED notOnceVars

\* out, _ = p.communicate(timeout=timeout) returns: the process has ended.
CommunicateReturns ==
    /\ once_pc = "communicate"
    /\ p_state = "exited"
    /\ out' = p_output
    /\ once_pc' = "check_rc"
    /\ UNCHANGED <<ignore_error, p_state, returncode, p_output, signals,
                   timed_out, polled_dead, wait_result, once_result>>
    /\ UNCHANGED notOnceVars

\* ... or raises subprocess.TimeoutExpired: the process was still running
\* when the deadline passed.
CommunicateTimeout ==
    /\ once_pc = "communicate"
    /\ p_state = "running"
    /\ timed_out' = TRUE
    /\ once_pc' = "kill_poll"
    /\ UNCHANGED <<ignore_error, p_state, returncode, p_output, out, signals,
                   polled_dead, wait_result, once_result>>
    /\ UNCHANGED notOnceVars

\* _kill_process_tree: if p.poll() is not None: return
KillPoll ==
    /\ once_pc = "kill_poll"
    /\ IF p_state = "exited"
         THEN /\ polled_dead' = TRUE
              /\ once_pc' = "drain"
         ELSE /\ polled_dead' = FALSE
              /\ once_pc' = "kill_term"
    /\ UNCHANGED <<ignore_error, p_state, returncode, p_output, out, signals,
                   timed_out, wait_result, once_result>>
    /\ UNCHANGED notOnceVars

\* os.killpg(p.pid, SIGTERM); when that raises, p.terminate()
KillTerm ==
    /\ once_pc = "kill_term"
    /\ \E to \in {"group", "process"} :
          signals' = Append(signals, [sig |-> "SIGTERM", to |-> to])
    /\ once_pc' = "kill_wait"
    /\ UNCHANGED <<ignore_error, p_state, returncode, p_output, out,
                   timed_out, polled_dead, wait_result, once_result>>
    /\ UNCHANGED notOnceVars

\* os.killpg(p.pid, SIGKILL); when that raises, p.kill().  SIGKILL cannot be
\* caught: the process is gone.
SendKill ==
    /\ \E to \in {"group", "process"} :
          signals' = Append(signals, [sig |-> "SIGKILL", to |-> to])
    /\ p_state' = "exited"
    /\ returncode' = IF p_state = "running" THEN -9 ELSE returncode

\* The mutant: the grace window expires and nothing more is sent.
KillWaitNoEscalation ==
    /\ once_pc = "kill_wait"
    /\ wait_result' = IF p_state = "exited" THEN "exited" ELSE "expired"
    /\ once_pc' = "drain"
    /\ UNCHANGED <<ignore_error, p_state, returncode, p_output, out, signals,
                   timed_out, polled_dead, once_result>>
    /\ UNCHANGED notOnceVars

\* p.wait(timeout=2): return when the process ended within the grace window,
\* else escalate to SIGKILL.
KillWait ==
    /\ once_pc = "kill_wait"
    /\ IF p_state = "exited"
         THEN /\ wait_result' = "exited"
              /\ UNCHANGED <<p_state, returncode, signals>>
         ELSE /\ wait_result' = "expired"
              /\ SendKill
    /\ once_pc' = "drain"
    /\ UNCHANGED <<ignore_error, p_output, out, timed_out, polled_dead,
                   once_result>>
    /\ UNCHANGED notOnceVars

\* try: out, _ = p.communicate(timeout=2)  except Exception: out = ""
Drain ==
    /\ once_pc = "drain"
    /\ out' \in {p_output, ""}
    /\ once_pc' = "finish_timeout"
    /\ UNCHANGED <<ignore_error, p_state, returncode, p_output, signals,
                   timed_out, polled_dead, wait_result, once_result>>
    /\ UNCHANGED notOnceVars

\* The mutant: ignore_error is not consulted on the timeout path.
FinishTimeoutAlwaysRaises ==
    /\ once_pc = "finish_timeout"
    /\ once_result' = [kind |-> "raise", val |-> "timeout"]
    /\ once_pc' = "done"
    /\ UNCHANGED <<ignore_error, p_state, returncode, p_output, out, signals,
                   timed_out, polled_dead, wait_result>>
    /\ UNCHANGED notOnceVars

\* if ignore_error: return out or ""   else: raise RuntimeError("mssh timeout")
FinishTimeout ==
    /\ once_pc = "finish_timeout"
    /\ once_result' = IF ignore_error
                        THEN [kind |-> "return", val |-> OrEmpty(out)]
                        ELSE [kind |-> "raise", val |-> "timeout"]
    /\ once_pc' = "done"
    /\ UNCHANGED <<ignore_error, p_state, returncode, p_output, out, signals,
                   timed_out, polled_dead, wait_result>>
    /\ UNCHANGED notOnceVars

\* if p.returncode != 0 and not ignore_error: raise ...;  return out or ""
CheckRc ==
    /\ once_pc = "check_rc"
    /\ once_result' = IF returncode # 0 /\ ~ignore_error
                        THEN [kind |-> "raise", val |-> "rc"]
                        ELSE [kind |-> "return", val |-> OrEmpty(out)]
    /\ once_pc' = "done"
    /\ UNCHANGED <<ignore_error, p_state, returncode, p_output, out, signals,
                   timed_out, polled_dead, wait_result>>
    /\ UNCHANGED notOnceVars

OnceNext ==
    \/ ProcExit
    \/ CommunicateReturns
    \/ CommunicateTimeout
    \/ KillPoll
    \/ KillTerm
    \/ KillWait
    \/ Drain
    \/ FinishTimeout
    \/ CheckRc

(***************************************************************************)
(* 2.4 GHz rate classification: _set_rate_2g_from_value, _wl_2g_rate_cmd   *)
(***************************************************************************)

\* The classifier is exercised on every integer of -MaxNegValue..MaxRateValue.
MaxNegValue == 3
MaxRateValue == 57

RateValues == (0 - MaxNegValue)..MaxRateValue

\* The mutant: the HT MCS range test is made first.
set_rate_2g_mcs_first(value) ==
    IF 0 <= value /\ value <= 15 THEN "11n"
    ELSE IF value \in {1, 2, 11} THEN "11b"
    ELSE IF value = 54 THEN "11g"
    ELSE "ValueError"

\* _set_rate_2g_from_value: the mode of the returned (mode, value) pair, or
\* ValueError when the function raises.
set_rate_2g_from_value(value) ==
    IF value \in {1, 2, 11} THEN "11b"
    ELSE IF value = 54 THEN "11g"
    ELSE IF 0 <= value /\ value <= 15 THEN "11n"
    ELSE "ValueError"

\* _wl_2g_rate_cmd: "wl -i <iface> 2g_rate -h v -b bw --sgi --ldpc" for HT,
\* "wl -i <iface> 2g_rate -r v -b bw" for the two legacy modes.
wl_2g_rate_cmd(value, bw) ==
    LET phy == set_rate_2g_from_value(value) IN
    IF phy = "11n"
      THEN [flag |-> "-h", value |-> value, bw |-> bw, sgi |-> TRUE, ldpc |-> TRUE]
      ELSE [flag |-> "-r", value |-> value, bw |-> bw, sgi |-> FALSE, ldpc |-> FALSE]

RateInit ==
    /\ rate_pc = "input"
    /\ rate_value \in RateValues
    /\ rate_mode = ""
    /\ rate_cmd = NoCmd
    /\ OnceIdle
    /\ SweepIdle
    /\ GuiIdle
    /\ ExecIdle
    /\ ApIdle
    /\ PrepIdle
    /\ StreamIdle

\* mode, v = _set_rate_2g_from_value(value)
Classify ==
    /\ rate_pc = "input"
    /\ rate_mode' = set_rate_2g_from_value(rate_value)
    /\ rate_pc' = IF rate_mode' = "ValueError" THEN "rejected" ELSE "classified"
    /\ UNCHANGED <<rate_value, rate_cmd>>
    /\ UNCHANGED notRateVars

\* the if/elif chain of _wl_2g_rate_cmd (bw is always 20 at the call sites)
BuildRateCmd ==
    /\ rate_pc = "classified"
    /\ rate_cmd' = wl_2g_rate_cmd(rate_value, 20)
    /\ rate_pc' = "built"
    /\ UNCHANGED <<rate_value, rate_mode>>
    /\ UNCHANGED notRateVars

RateNext ==
    \/ Classify
    \/ BuildRateCmd

SpecOnce == OnceInit /\ [][OnceNext]_vars

SpecRate == RateInit /\ [][RateNext]_vars

(***************************************************************************)
(* The sweep: main.py main() with the runners of core/iperf.py             *)
(***************************************************************************)

\* MODE_TABLE of main.py
MODE_TABLE ==
    [AP_TX  |-> [need_dut_ap |-> TRUE,  need_asus_ch_bw |-> FALSE, direction |-> "TX"],
     AP_RX  |-> [need_dut_ap |-> TRUE,  need_asus_ch_bw |-> FALSE, direction |-> "RX"],
     STA_TX |-> [need_dut_ap |-> FALSE, need_asus_ch_bw |-> TRUE,  direction |-> "TX"],
     STA_RX |-> [need_dut_ap |-> FALSE, need_asus_ch_bw |-> TRUE,  direction |-> "RX"]]

Modes == DOMAIN MODE_TABLE

Bands == {"5G", "2G"}

\* --mcs: the default "auto", or the decimal digits of one rate
Auto == <<"a", "u", "t", "o">>
McsArgs == {Auto, <<"7">>, <<"9">>}

\* --bw and --ch lists the sweep is run with
BwLists == {<<20>>, <<40>>, <<80>>, <<40, 20>>}
ChLists(b) == IF b = "5G" THEN {<<36>>, <<36, 36>>} ELSE {<<6>>}

\* A TestPoint is skipped for a dead STA link at most MaxSkips times in a run.
MaxSkips == 1

mode_cfg == MODE_TABLE[mode]
is_rx_mode == mode \in {"AP_RX", "STA_RX"}
is_sta_mode == mode \in {"STA_TX", "STA_RX"}
bw == bw_list[bi]
ch == ch_list[ci]
mcs == mcs_list[mi]

\* int(mcs_arg) on a string of decimal digits
DigitVal ==
    [c \in {"0", "1", "2", "3", "4", "5", "6", "7", "8", "9"} |->
        CASE c = "0" -> 0 [] c = "1" -> 1 [] c = "2" -> 2 [] c = "3" -> 3
          [] c = "4" -> 4 [] c = "5" -> 5 [] c = "6" -> 6 [] c = "7" -> 7
          [] c = "8" -> 8 [] c = "9" -> 9]

RECURSIVE PyInt(_)
PyInt(s) ==
    IF s = <<>> THEN 0
    ELSE 10 * PyInt(SubSeq(s, 1, Len(s) - 1)) + DigitVal[s[Len(s)]]

\* list(range(start, stop, -1))
PyRangeDown(start, stop) ==
    [i \in 1..(IF start > stop THEN start - stop ELSE 0) |-> start - (i - 1)]

\* what parse_mcs_list yields for the 2.4 GHz band
RaisesRuntimeError == <<"RuntimeError">>

\* The mutant: the 20 MHz case is lost.
parse_mcs_list_no_bw20(b, w, arg) ==
    IF arg # Auto THEN <<PyInt(arg)>>
    ELSE IF b = "5G" THEN PyRangeDown(9, -1)
    ELSE RaisesRuntimeError

\* parse_mcs_list(band, bw, mcs_arg)
parse_mcs_list(b, w, arg) ==
    IF arg # Auto THEN <<PyInt(arg)>>
    ELSE IF b = "5G"
           THEN IF w = 20 THEN PyRangeDown(8, -1) ELSE PyRangeDown(9, -1)
    ELSE RaisesRuntimeError

\* The mutant: the CCK entry is walked before the OFDM entry.
RATE_SWEEP_2G_PLAN_cck_first ==
    << [phy |-> "11n", rates |-> PyRangeDown(15, 7)],
       [phy |-> "11b", rates |-> <<11>>],
       [phy |-> "11g", rates |-> <<54>>] >>

\* RATE_SWEEP_2G_PLAN, the list main() walks in the 2.4 GHz branch
RATE_SWEEP_2G_PLAN ==
    << [phy |-> "11n", rates |-> PyRangeDown(15, 7)],
       [phy |-> "11g", rates |-> <<54>>],
       [phy |-> "11b", rates |-> <<11>>] >>

\* for phy, rates in RATE_SWEEP_2G_PLAN: for rate in rates: ...
RECURSIVE RatesInOrder(_)
RatesInOrder(p) ==
    IF p = <<>> THEN <<>> ELSE Head(p).rates \o RatesInOrder(Tail(p))

\* The rates main() sweeps in one (width, channel) iteration.
SweepPlan(b, w, arg) ==
    IF b = "5G" THEN parse_mcs_list(b, w, arg)
    ELSE RatesInOrder(RATE_SWEEP_2G_PLAN)

\* The mutant: the rate is left out of the file name.
TputLogger_fname_no_mcs(b, w, role, dir, c, m) ==
    << "BW", ToString(w), "/", b, "_", ToString(w), "MHz_", role, "_", dir,
       "_CH", ToString(c), ".txt" >>

\* TputLogger.create: BW<bw>/<band>_<bw>MHz_<mode>_<direction>_CH<ch>_MCS<mcs>.txt
TputLogger_fname(b, w, role, dir, c, m) ==
    << "BW", ToString(w), "/", b, "_", ToString(w), "MHz_", role, "_", dir,
       "_CH", ToString(c), "_MCS", ToString(m), ".txt" >>

\* (band, bw, channel, direction)
warmup_key(b, w, c, dir) == <<b, w, c, dir>>

SweepInit ==
    /\ mode \in Modes
    /\ band \in Bands
    /\ bw_list \in BwLists
    /\ ch_list \in ChLists(band)
    /\ mcs_arg \in McsArgs
    /\ main_pc = "loop"
    /\ bi = 1 /\ ci = 0 /\ mcs_list = <<>> /\ mi = 0 /\ first_mcs = TRUE
    /\ sessions = {}
    /\ pending_exc = FALSE /\ abort_at = ""
    /\ AP_WARMED = {} /\ STA_TX_READY = FALSE
    /\ attempt = 1 /\ verify_seen = "none"
    /\ outer_try = 1 /\ recover_try = 0 /\ restart_calls = 0
    /\ saw_signature = FALSE /\ tp_streams = 0
    /\ tp_result = "none"
    /\ runs = <<>> /\ logs = <<>> /\ warmups = <<>> /\ skips = 0
    /\ clean = TRUE
    /\ assoc_seen = FALSE /\ rx_cleared = FALSE /\ lock_cmds = 0
    /\ sta_tried = <<>>
    /\ OnceIdle
    /\ RateIdle
    /\ GuiIdle
    /\ ExecIdle
    /\ ApIdle
    /\ PrepIdle
    /\ StreamIdle

\* retries=5 of _asus_pc_set_rate_with_retry
retries == 5

\* An exception leaves the try block of main(): the finally clause runs next.
Raise(where) ==
    /\ main_pc' = "finally"
    /\ pending_exc' = TRUE
    /\ abort_at' = where
    /\ clean' = FALSE

\* The first step of a TestPoint of the 5 GHz or the 2.4 GHz sweep.
FirstStep ==
    IF band = "5G" /\ mode = "AP_RX" /\ first_mcs THEN "main_warmup"
    ELSE IF band = "5G" /\ is_rx_mode THEN "rx_lock"
    ELSE IF band = "2G" /\ is_rx_mode THEN "clear_2g"
    ELSE "runner"

\* for bw in args.bw: for ch in args.ch: the next (width, channel) pair
NextIteration ==
    /\ main_pc = "loop"
    /\ \/ ci < Len(ch_list) /\ bi <= Len(bw_list)
       \/ bi < Len(bw_list)
    /\ IF ci < Len(ch_list)
         THEN ci' = ci + 1 /\ bi' = bi
         ELSE ci' = 1 /\ bi' = bi + 1
    /\ main_pc' = "iter"
    /\ UNCHANGED <<argVars, linkVars, mcs_list, mi, first_mcs, sessions,
                   excVars, moduleVars, attempt, verify_seen, retryVars,
                   tp_result, histVars, clean>>
    /\ UNCHANGED notSweepVars

\* both loops are exhausted: print("DONE")
SweepDone ==
    /\ main_pc = "loop"
    /\ ci >= Len(ch_list)
    /\ bi >= Len(bw_list)
    /\ main_pc' = "done"
    /\ UNCHANGED <<argVars, linkVars, loopVars, sessions, excVars, moduleVars,
                   attempt, verify_seen, retryVars, tp_result, histVars,
                   clean>>
    /\ UNCHANGED notSweepVars

\* the condition of the 2G guardrail: band == "2G" and bw != 20
guardrail_2g_off(b, w) == FALSE
guardrail_2g(b, w) == b = "2G" /\ w # 20

\* if band == "2G" and bw != 20: continue
Guardrail2G ==
    /\ main_pc = "iter"
    /\ guardrail_2g(band, bw)
    /\ main_pc' = "loop"
    /\ UNCHANGED <<argVars, linkVars, loopVars, sessions, excVars, moduleVars,
                   attempt, verify_seen, retryVars, tp_result, histVars,
                   clean>>
    /\ UNCHANGED notSweepVars

\* try: if asus_ap: asus_ap.connect(force=True)
\*      if asus_ctrl_for_ap_tx: asus_ctrl_for_ap_tx.connect(force=True)
ConnectSessions ==
    /\ main_pc = "iter"
    /\ ~guardrail_2g(band, bw)
    /\ LET mine == (IF is_sta_mode THEN {"asus_ap"} ELSE {})
                   \cup (IF mode = "AP_TX" THEN {"asus_ctrl_for_ap_tx"} ELSE {})
       IN \/ /\ sessions' = sessions \cup mine
             /\ main_pc' = "bringup"
             /\ UNCHANGED <<excVars, clean>>
          \/ /\ mine # {}
             /\ sessions' = sessions \ mine
             /\ Raise("connect")
    /\ UNCHANGED <<argVars, linkVars, loopVars, moduleVars, attempt,
                   verify_seen, retryVars, tp_result, histVars>>
    /\ UNCHANGED notSweepVars

\* STA_*: cleanup_dut_ap, update_and_upload_wpa_conf_for_band, ASUS channel;
\* AP_*: set_ap_channel_and_bw_band, wait_sta_connected; _clear_5g_rate_auto.
\* The bring-up raises when the AP is not enabled or the STA never associates.
\* wait_sta_connected is called only "if band == \"5G\"" of the AP modes.
\* _clear_5g_rate_auto (5G only) sets the receive side of the mode to "auto";
\* its failure is swallowed.
BringUp ==
    /\ main_pc = "bringup"
    /\ \/ /\ main_pc' = "sweep_begin"
          /\ assoc_seen' = (mode_cfg.need_dut_ap /\ band = "5G")
          /\ \E ok \in (IF band = "5G" THEN BOOLEAN ELSE {TRUE}) :
                /\ rx_cleared' = (rx_cleared \/ (band = "5G" /\ ok))
                /\ clean' = (clean /\ ok)
          /\ UNCHANGED excVars
       \/ /\ Raise("bringup")
          /\ assoc_seen' = FALSE
          /\ UNCHANGED rx_cleared
    /\ UNCHANGED sta_tried
    /\ UNCHANGED <<argVars, lock_cmds, loopVars, sessions, moduleVars, attempt,
                   verify_seen, retryVars, tp_result, histVars>>
    /\ UNCHANGED notSweepVars

\* mcs_list = parse_mcs_list(band, bw, args.mcs); first_mcs = True   (5G)
\* RATE_SWEEP_2G_PLAN = [...]                                        (2G)
BeginSweep ==
    /\ main_pc = "sweep_begin"
    /\ mcs_list' = SweepPlan(band, bw, mcs_arg)
    /\ mi' = 0
    /\ first_mcs' = IF band = "5G" THEN TRUE ELSE first_mcs
    /\ main_pc' = "rate_head"
    /\ UNCHANGED <<argVars, linkVars, bi, ci, sessions, excVars, moduleVars,
                   attempt, verify_seen, retryVars, tp_result, histVars,
                   clean>>
    /\ UNCHANGED notSweepVars

\* for mcs in mcs_list: / for rate in rates: the next TestPoint, or the end
\* of the try block
NextRate ==
    /\ main_pc = "rate_head"
    /\ IF mi < Len(mcs_list)
         THEN /\ mi' = mi + 1
              /\ main_pc' = FirstStep
         ELSE /\ mi' = mi
              /\ main_pc' = "finally"
    /\ attempt' = 1
    /\ verify_seen' = "none"
    /\ outer_try' = 1
    /\ recover_try' = 0
    /\ restart_calls' = 0
    /\ saw_signature' = FALSE
    /\ tp_streams' = 0
    /\ lock_cmds' = 0
    /\ sta_tried' = <<>>
    /\ UNCHANGED <<argVars, assoc_seen, rx_cleared, bi, ci, mcs_list,
                   first_mcs, sessions, excVars,
                   moduleVars, tp_result, histVars, clean>>
    /\ UNCHANGED notSweepVars

\* if args.mode == "AP_RX" and first_mcs: a 5 s reverse transfer, then
\* asus_pc.connect(force=True); first_mcs = False
MainWarmup ==
    /\ main_pc = "main_warmup"
    /\ warmups' = Append(warmups, warmup_key(band, bw, ch, "RX"))
    /\ \/ /\ sessions' = sessions \cup {"asus_pc"}
          /\ first_mcs' = FALSE
          /\ main_pc' = "rx_lock"
          /\ UNCHANGED <<excVars, clean>>
       \/ /\ sessions' = sessions \ {"asus_pc"}
          /\ first_mcs' = first_mcs
          /\ Raise("main_warmup")
    /\ UNCHANGED <<argVars, linkVars, bi, ci, mcs_list, mi, moduleVars,
                   attempt, verify_seen, retryVars, tp_result, runs, logs,
                   skips>>
    /\ UNCHANGED notSweepVars

\* One attempt of _asus_pc_set_rate_with_retry: wait for the port, connect,
\* AsusPC.set_rx_rate_5g (the rate command, then the nrate and rate
\* read-backs, none of them guarded inside set_rx_rate_5g).  Any exception
\* ends the attempt; after the last attempt RuntimeError is raised.
AsusPcSetRate ==
    /\ main_pc = "rx_lock"
    /\ \E o \in {"port_down", "connect_fail", "set_fail", "unreadable",
                 "mismatch", "match"} :
          /\ verify_seen' = IF o \in {"unreadable", "mismatch", "match"}
                              THEN o ELSE "none"
          /\ sessions' = IF o = "port_down" THEN sessions
                         ELSE IF o = "connect_fail" THEN sessions \ {"asus_pc"}
                         ELSE sessions \cup {"asus_pc"}
          /\ lock_cmds' = IF o \in {"port_down", "connect_fail"}
                            THEN lock_cmds ELSE lock_cmds + 1
          /\ IF o \in {"mismatch", "match"}
               THEN /\ main_pc' = "runner"
                    /\ attempt' = attempt
                    /\ clean' = (clean /\ o = "match")
                    /\ UNCHANGED excVars
               ELSE IF attempt < retries
                      THEN /\ attempt' = attempt + 1
                           /\ main_pc' = main_pc
                           /\ clean' = FALSE
                           /\ UNCHANGED excVars
                      ELSE /\ attempt' = attempt
                           /\ Raise("rx_rate_lock")
    /\ UNCHANGED sta_tried
    /\ UNCHANGED <<argVars, assoc_seen, rx_cleared, loopVars, moduleVars,
                   retryVars, tp_result, histVars>>
    /\ UNCHANGED notSweepVars

\* run_mssh_once("wl -i wlan0 2g_rate auto || true", ignore_error=True)
\* (the DUT is the receive side of the RX modes; a failing command is ignored)
Clear2gAuto ==
    /\ main_pc = "clear_2g"
    /\ main_pc' = "runner"
    /\ \E ok \in BOOLEAN :
          /\ rx_cleared' = (rx_cleared \/ ok)
          /\ clean' = (clean /\ ok)
    /\ UNCHANGED sta_tried
    /\ UNCHANGED <<argVars, assoc_seen, lock_cmds, loopVars, sessions,
                   excVars, moduleVars, attempt, verify_seen, retryVars,
                   tp_result, histVars>>
    /\ UNCHANGED notSweepVars

\* the controllers main() has created for the mode, which its finally
\* clause closes: if asus_ap: asus_ap.close(); if asus_ctrl_for_ap_tx: ...;
\* if asus_pc: asus_pc.close() (close() sets self.ssh = None)
finally_closes_but_asus_pc ==
    (IF is_sta_mode THEN {"asus_ap"} ELSE {})
    \cup (IF mode = "AP_TX" THEN {"asus_ctrl_for_ap_tx"} ELSE {})
finally_closes ==
    (IF is_sta_mode THEN {"asus_ap"} ELSE {})
    \cup (IF mode = "AP_TX" THEN {"asus_ctrl_for_ap_tx"} ELSE {})
    \cup (IF is_rx_mode THEN {"asus_pc"} ELSE {})

\* finally: close the three sessions; a pending exception ends main()
Finally ==
    /\ main_pc = "finally"
    /\ sessions' = sessions \ finally_closes
    /\ main_pc' = IF pending_exc THEN "aborted" ELSE "loop"
    /\ lock_cmds' = 0
    /\ sta_tried' = <<>>
    /\ UNCHANGED <<argVars, assoc_seen, rx_cleared, loopVars, excVars,
                   moduleVars, attempt, verify_seen, retryVars, tp_result,
                   histVars, clean>>
    /\ UNCHANGED notSweepVars

(***************************************************************************)
(* run_iperf_ap                                                            *)
(***************************************************************************)

\* Lines the iperf3 client prints, as sequences of words.
LineData == <<"[5]", "0.00-1.00", "sec", "941", "Mbits/sec">>
LineNoRoute == <<"connect", "failed:", "No", "route", "to", "host">>
LineUnable ==
    <<"iperf3:", "error", "-", "unable", "to", "connect", "to", "server:",
      "Connection", "refused">>
LineUnreachable == <<"connect", "failed:", "Network", "is", "unreachable">>
LineBlank == <<>>

\* What one transfer can print: nothing, a blank line, throughput lines, a
\* connect failure, or throughput lines followed by a connect failure.
RealOutputs ==
    { <<>>, <<LineBlank>>, <<LineData>>, <<LineNoRoute>>, <<LineUnable>>,
      <<LineUnreachable>>, <<LineData, LineNoRoute>> }

\* str.lower() on the words that have an upper-case letter
LowerWord(w) ==
    CASE w = "No" -> "no"
      [] w = "Network" -> "network"
      [] w = "Connection" -> "connection"
      [] w = "Mbits/sec" -> "mbits/sec"
      [] OTHER -> w

lower(line) == [i \in DOMAIN line |-> LowerWord(line[i])]

\* phrase in line
Contains(line, phrase) ==
    \E i \in 0..(Len(line) - Len(phrase)) :
        SubSeq(line, i + 1, i + Len(phrase)) = phrase

\* The mutant: the line is not lower-cased before it is searched.
looks_like_connect_fail_case_sensitive(line) ==
    \/ Contains(line, <<"unable", "to", "connect">>)
    \/ Contains(line, <<"no", "route", "to", "host">>)
    \/ Contains(line, <<"network", "is", "unreachable">>)

\* _looks_like_connect_fail(line)
looks_like_connect_fail(line) ==
    LET low == lower(line) IN
    \/ Contains(low, <<"unable", "to", "connect">>)
    \/ Contains(low, <<"no", "route", "to", "host">>)
    \/ Contains(low, <<"network", "is", "unreachable">>)

\* the flags the streaming loop of run_iperf_ap leaves behind
SawOutput(output) == \E i \in DOMAIN output : output[i] # <<>>
SawConnectFail(output) ==
    \E i \in DOMAIN output :
        output[i] # <<>> /\ looks_like_connect_fail(output[i])

\* outer_barrier_tries = 3
outer_barrier_tries == 3

\* The mutant: a third recovery is allowed.
ap_recover_tries_three(direction) == IF direction = "TX" THEN 3 ELSE 0

\* ap_recover_tries = 2 if direction == "TX" else 0
ap_recover_tries(direction) == IF direction = "TX" THEN 2 ELSE 0

\* what the rate-lock block of run_iperf_ap can end in
ApLockOutcomes ==
    IF band = "5G"
      THEN IF mode_cfg.direction = "TX" THEN {"locked", "not_locked"}
           ELSE {"pass"}
      ELSE IF mode_cfg.direction = "TX" THEN {"locked", "not_locked", "raise"}
           ELSE {"match", "mismatch", "unreadable", "raise"}

\* Rate lock of run_iperf_ap.  5G TX: _ap_tx_rate_lock_robust_5g (a bool,
\* never raises); 5G RX: pass; 2G TX: _clear_2g_rate_auto_rx("ASUS") (raises
\* when the ASUS session fails) and _set_rate_2g_dut (a bool); 2G RX:
\* _asus_set_rx_rate_2g (raises when the session or the rate command fails,
\* the read-back is guarded by its own try/except).
ApRateLock ==
    /\ main_pc = "runner"
    /\ mode_cfg.need_dut_ap
    /\ \E o \in ApLockOutcomes :
          /\ verify_seen' = IF o \in {"match", "mismatch", "unreadable"}
                              THEN o ELSE verify_seen
          /\ IF o = "raise"
               THEN Raise("ap_rate_lock")
               ELSE /\ main_pc' = "ap_warmup"
                    /\ clean' = (clean /\ o \in {"locked", "pass", "match"})
                    /\ UNCHANGED excVars
          \* 2G: _clear_2g_rate_auto_rx(rx_side=...) precedes the lock; on the
          \* ASUS it raises or succeeds, on the DUT its failure is ignored
          /\ IF band = "2G" /\ o # "raise"
               THEN IF mode_cfg.direction = "TX"
                      THEN rx_cleared' = TRUE
                      ELSE \E ok \in BOOLEAN : rx_cleared' = (rx_cleared \/ ok)
               ELSE rx_cleared' = rx_cleared
    /\ lock_cmds' = 0
    /\ sta_tried' = <<>>
    /\ UNCHANGED <<argVars, assoc_seen, loopVars, sessions, moduleVars,
                   attempt, retryVars, tp_result, histVars>>
    /\ UNCHANGED notSweepVars

\* if warmup_key not in _AP_WARMED: warm-up transfer; _AP_WARMED.add(key)
ApWarmup ==
    /\ main_pc = "ap_warmup"
    /\ LET key == warmup_key(band, bw, ch, mode_cfg.direction) IN
          IF key \notin AP_WARMED
            THEN /\ warmups' = Append(warmups, key)
                 /\ AP_WARMED' = AP_WARMED \cup {key}
            ELSE UNCHANGED <<warmups, AP_WARMED>>
    /\ main_pc' = "ap_logger"
    /\ UNCHANGED <<argVars, linkVars, loopVars, sessions, excVars,
                   STA_TX_READY, attempt, verify_seen, retryVars, tp_result,
                   runs, logs, skips, clean>>
    /\ UNCHANGED notSweepVars

\* stop_all_iperf_clients(); logger = _create_logger(role="AP", ...); the
\* first barrier of the retry loop
ApCreateLogger ==
    /\ main_pc = "ap_logger"
    /\ logs' = Append(logs, TputLogger_fname(band, bw, "AP",
                                             mode_cfg.direction, ch, mcs))
    /\ outer_try' = 1
    /\ recover_try' = 0
    /\ main_pc' = "ap_real"
    /\ UNCHANGED <<argVars, linkVars, loopVars, sessions, excVars, moduleVars,
                   attempt, verify_seen, restart_calls, saw_signature,
                   tp_streams, tp_result, runs, warmups, skips, clean>>
    /\ UNCHANGED notSweepVars

\* One pass of the inner loop: stop_all_iperf_clients, the real transfer, and
\* the decision that follows it.
ApRealRun ==
    /\ main_pc = "ap_real"
    /\ \E output \in RealOutputs :
          /\ tp_streams' = tp_streams + 1
          /\ runs' = IF tp_streams = 0 THEN Append(runs, mcs) ELSE runs
          /\ saw_signature' =
                (saw_signature \/ output \in {<<LineNoRoute>>, <<LineUnable>>,
                                              <<LineUnreachable>>,
                                              <<LineData, LineNoRoute>>})
          /\ clean' = (clean /\ output = <<LineData>>)
          /\ IF SawOutput(output) /\ ~SawConnectFail(output)
               THEN \* return {"ok": True}
                    /\ tp_result' = "ok"
                    /\ main_pc' = "rate_head"
                    /\ UNCHANGED <<outer_try, recover_try>>
               ELSE IF /\ mode_cfg.direction = "TX"
                       /\ recover_try < ap_recover_tries(mode_cfg.direction)
                      THEN \* hostapd recovery follows
                           /\ main_pc' = "ap_recover"
                           /\ UNCHANGED <<outer_try, recover_try, tp_result>>
                      ELSE IF outer_try < outer_barrier_tries
                             THEN \* next barrier attempt
                                  /\ outer_try' = outer_try + 1
                                  /\ recover_try' = 0
                                  /\ main_pc' = "ap_real"
                                  /\ UNCHANGED tp_result
                             ELSE \* RESULT=FAIL, return {"ok": False}
                                  /\ tp_result' = "fail"
                                  /\ main_pc' = "rate_head"
                                  /\ UNCHANGED <<outer_try, recover_try>>
    /\ UNCHANGED <<argVars, linkVars, loopVars, sessions, excVars, moduleVars,
                   attempt, verify_seen, restart_calls, logs, warmups, skips>>
    /\ UNCHANGED notSweepVars

\* logger.write("# RECOVERY=restart_hostapd"); _dut_ap_restart_hostapd(...):
\* it returns at once when the runtime conf is missing, restarts hostapd
\* otherwise, and raises when "hostapd -B" fails; then the barrier.
ApRestartHostapd ==
    /\ main_pc = "ap_recover"
    /\ restart_calls' = restart_calls + 1
    /\ \E o \in {"conf_missing", "restarted", "raise"} :
          IF o = "raise"
            THEN /\ Raise("hostapd_restart")
                 /\ UNCHANGED recover_try
            ELSE /\ recover_try' = recover_try + 1
                 /\ main_pc' = "ap_real"
                 /\ UNCHANGED <<excVars, clean>>
    /\ UNCHANGED <<argVars, linkVars, loopVars, sessions, moduleVars, attempt,
                   verify_seen, outer_try, saw_signature, tp_streams,
                   tp_result, histVars>>
    /\ UNCHANGED notSweepVars

(***************************************************************************)
(* run_iperf_sta                                                           *)
(***************************************************************************)

\* what the "STA prepare" block can end in
StaPrepareOutcomes ==
    IF mode_cfg.direction = "TX"
      THEN IF STA_TX_READY THEN {"reuse"}
           ELSE {"connected", "not_reported", "raise"}
      ELSE {"connected", "soft", "hard"}
           \cup (IF skips < MaxSkips THEN {"down"} ELSE {})

\* STA_RX: what sta_prepare, _sta_soft_reconnect and _sta_hard_recover
\* would each report about the link if they were called
RxLinkResults == [prep : BOOLEAN, soft : BOOLEAN, hard : BOOLEAN]

\* the RX branch of the "STA prepare" block: connected = sta_prepare(...);
\* if not connected: if not _sta_soft_reconnect(...): ok = _sta_hard_recover
sta_rx_link_steps_no_gate(r) ==
    <<[step |-> "sta_prepare", ok |-> r.prep],
      [step |-> "soft_reconnect", ok |-> r.soft],
      [step |-> "hard_recover", ok |-> TRUE]>>
sta_rx_link_steps(r) ==
    <<[step |-> "sta_prepare", ok |-> r.prep]>>
    \o (IF r.prep THEN <<>>
        ELSE <<[step |-> "soft_reconnect", ok |-> r.soft]>>
             \o (IF r.soft THEN <<>>
                 ELSE <<[step |-> "hard_recover", ok |-> r.hard]>>))

\* how the block ends for a list of steps taken
rx_outcome(steps) ==
    IF ~steps[Len(steps)].ok THEN "down"
    ELSE CASE Len(steps) = 1 -> "connected"
           [] Len(steps) = 2 -> "soft"
           [] OTHER -> "hard"

\* TX: sta_prepare_tx_once on the first call of the process, reuse afterwards.
\* RX: sta_prepare (its exception is caught), then _sta_soft_reconnect, then
\* _sta_hard_recover, and the TestPoint is skipped when all three fail.
StaPrepare ==
    /\ main_pc = "runner"
    /\ ~mode_cfg.need_dut_ap
    /\ \E o \in StaPrepareOutcomes :
          /\ IF mode_cfg.direction = "TX" THEN sta_tried' = <<>>
             ELSE \E r \in RxLinkResults :
                     /\ sta_tried' = sta_rx_link_steps(r)
                     /\ rx_outcome(sta_tried') = o
          /\ STA_TX_READY' =
                (STA_TX_READY \/ (/\ mode_cfg.direction = "TX"
                                  /\ o \in {"connected", "not_reported"}))
          /\ IF o = "raise"
               THEN /\ Raise("sta_prepare")
                    /\ UNCHANGED <<tp_result, skips>>
               ELSE IF o = "down"
                      THEN \* return {"ok": False, "skipped": True}
                           /\ tp_result' = "skipped"
                           /\ skips' = skips + 1
                           /\ main_pc' = "rate_head"
                           /\ clean' = FALSE
                           /\ UNCHANGED excVars
                      ELSE /\ main_pc' = "sta_lock"
                           /\ clean' = (clean /\ o \in {"connected", "reuse"})
                           /\ UNCHANGED <<excVars, tp_result, skips>>
    /\ lock_cmds' = 0
    /\ UNCHANGED <<argVars, assoc_seen, rx_cleared, loopVars, sessions,
                   AP_WARMED, attempt, verify_seen, retryVars, runs, logs,
                   warmups>>
    /\ UNCHANGED notSweepVars

\* what the rate-lock block of run_iperf_sta can end in
StaLockOutcomes ==
    IF band = "5G"
      THEN IF mode_cfg.direction = "TX" THEN {"locked", "raise"}
           ELSE {"pass"}
      ELSE IF mode_cfg.direction = "TX" THEN {"locked", "not_locked"}
           ELSE {"match", "mismatch", "unreadable", "raise"}

\* Rate lock of run_iperf_sta.  5G TX: set_sta_rate (raises when the command
\* fails); 5G RX: pass; 2G TX: _set_rate_2g_dut (a bool); 2G RX:
\* _asus_set_rx_rate_2g.
StaRateLock ==
    /\ main_pc = "sta_lock"
    /\ \E o \in StaLockOutcomes :
          /\ verify_seen' = IF o \in {"match", "mismatch", "unreadable"}
                              THEN o ELSE verify_seen
          /\ IF o = "raise"
               THEN Raise("sta_rate_lock")
               ELSE /\ main_pc' = "sta_real"
                    /\ clean' = (clean /\ o \in {"locked", "pass", "match"})
                    /\ UNCHANGED excVars
    /\ UNCHANGED <<argVars, linkVars, loopVars, sessions, moduleVars, attempt,
                   retryVars, tp_result, histVars>>
    /\ UNCHANGED notSweepVars

\* stop_all_iperf_clients(); logger = _create_logger(role="STA", ...); the
\* transfer; logger.close(); return {"ok": True}
StaRealRun ==
    /\ main_pc = "sta_real"
    /\ logs' = Append(logs, TputLogger_fname(band, bw, "STA",
                                             mode_cfg.direction, ch, mcs))
    /\ runs' = Append(runs, mcs)
    /\ tp_streams' = tp_streams + 1
    /\ \E output \in RealOutputs :
          /\ saw_signature' =
                (saw_signature \/ output \in {<<LineNoRoute>>, <<LineUnable>>,
                                              <<LineUnreachable>>,
                                              <<LineData, LineNoRoute>>})
          /\ clean' = (clean /\ output = <<LineData>>)
    /\ tp_result' = "ok"
    /\ main_pc' = "rate_head"
    /\ UNCHANGED <<argVars, linkVars, loopVars, sessions, excVars, moduleVars,
                   attempt, verify_seen, outer_try, recover_try, restart_calls,
                   warmups, skips>>
    /\ UNCHANGED notSweepVars

Next ==
    \/ NextIteration
    \/ SweepDone
    \/ Guardrail2G
    \/ ConnectSessions
    \/ BringUp
    \/ BeginSweep
    \/ NextRate
    \/ MainWarmup
    \/ AsusPcSetRate
    \/ Clear2gAuto
    \/ Finally
    \/ ApRateLock
    \/ ApWarmup
    \/ ApCreateLogger
    \/ ApRealRun
    \/ ApRestartHostapd
    \/ StaPrepare
    \/ StaRateLock
    \/ StaRealRun

Init == SweepInit

Spec == Init /\ [][Next]_vars

(***************************************************************************)
(* The GUI supervisor (GUI.py MainWindow) with the environment tool        *)
(* (core/restore_asus_cfg.py) and the main.py processes it launches        *)
(***************************************************************************)

\* the entries of the mode combo box and their phases
GUI_MODE_SEQ ==
    [m \in {"AP_TX", "AP_RX", "AP_TX&RX", "STA_TX", "STA_RX", "STA_TX&RX", "ALL"} |->
        CASE m = "AP_TX&RX" -> <<"AP_TX", "AP_RX">>
          [] m = "STA_TX&RX" -> <<"STA_TX", "STA_RX">>
          [] m = "ALL" -> <<"STA_TX", "STA_RX", "AP_TX", "AP_RX">>
          [] OTHER -> <<m>>]

\* Start is clicked at most MaxGuiRuns times, and at most MaxEnvProcs
\* environment tools and MaxWorkers main.py processes are ever created.
MaxGuiRuns == 2
MaxEnvProcs == 2
MaxWorkers == 4

\* _env_target_for_phase_mode: "ap" for the phases whose name starts with
\* "STA_", "sta" for the others
\* The mutant: every phase is taken to need the router as access point.
env_target_always_ap(phase_mode) == "ap"

\* _env_target_for_phase_mode: STA_* phases need the router restored as AP
env_target_for_phase_mode(phase_mode) ==
    IF phase_mode \in {"STA_TX", "STA_RX"} THEN "ap" ELSE "sta"

\* the fields of MainWindow and the processes it has created, as one value
GuiState ==
    [plan_set |-> plan_set, phase_seq |-> phase_seq, phase_idx |-> phase_idx,
     worker |-> worker, env_preparing |-> env_preparing,
     env_process |-> env_process, current_env_target |-> current_env_target,
     stop_enabled |-> stop_enabled, start_enabled |-> start_enabled,
     envs |-> envs, workers |-> workers,
     dryrun_fail_seen |-> dryrun_fail_seen,
     launched_after_fail |-> launched_after_fail,
     run |-> runs_started]

SetGui(g) ==
    /\ plan_set' = g.plan_set
    /\ phase_seq' = g.phase_seq
    /\ phase_idx' = g.phase_idx
    /\ worker' = g.worker
    /\ env_preparing' = g.env_preparing
    /\ env_process' = g.env_process
    /\ current_env_target' = g.current_env_target
    /\ stop_enabled' = g.stop_enabled
    /\ start_enabled' = g.start_enabled
    /\ envs' = g.envs
    /\ workers' = g.workers
    /\ dryrun_fail_seen' = g.dryrun_fail_seen
    /\ launched_after_fail' = g.launched_after_fail

\* _refresh_start_enabled
refresh_start_enabled(g) ==
    [g EXCEPT !.start_enabled = (g.worker = 0 /\ ~g.env_preparing)]

\* _start_phase_worker: RunWorker(args).start()
start_phase_worker(g, phase_mode) ==
    IF ~g.plan_set THEN g
    ELSE [g EXCEPT !.workers = Append(@, [mode |-> phase_mode,
                                          state |-> "running", code |-> 0,
                                          run |-> g.run]),
                   !.worker = Len(g.workers) + 1,
                   !.launched_after_fail = (@ \/ g.dryrun_fail_seen)]

\* _launch_worker, the closure of _start_phase_with_auto_env
launch_worker(g, phase_mode) ==
    IF ~g.plan_set \/ ~g.stop_enabled THEN g
    ELSE start_phase_worker(g, phase_mode)

\* _prepare_env_internal(target, on_success=_launch_worker)
prepare_env_internal(g, target, phase_mode) ==
    IF g.worker # 0 THEN g
    ELSE IF g.env_preparing THEN g
    ELSE LET g1 == refresh_start_enabled([g EXCEPT !.env_preparing = TRUE])
             proc == [target |-> target, phase |-> phase_mode,
                      pc |-> "soft_reset", code |-> 0, ready |-> FALSE,
                      failed_at |-> "", dryrun |-> "none",
                      ping_dst |-> "", dryrun_dst |-> "",
                      steps |-> <<>>, run |-> g.run]
         IN [g1 EXCEPT !.envs = Append(@, proc),
                       !.env_process = Len(g.envs) + 1]

\* _start_phase_with_auto_env
start_phase_with_auto_env(g) ==
    IF ~g.plan_set THEN g
    ELSE IF g.phase_idx >= Len(g.phase_seq)
      THEN refresh_start_enabled([g EXCEPT !.worker = 0,
                                           !.stop_enabled = FALSE])
      ELSE LET phase_mode == g.phase_seq[g.phase_idx + 1]
               needed_target == env_target_for_phase_mode(phase_mode)
           IN IF g.current_env_target # needed_target
                THEN prepare_env_internal(g, needed_target, phase_mode)
                ELSE launch_worker(g, phase_mode)

\* no more processes are created than the bounds allow
WithinGuiBounds(g) ==
    /\ Len(g.envs) <= MaxEnvProcs
    /\ Len(g.workers) <= MaxWorkers

\* dropping or stopping a RunWorker kills its main.py process
kill_worker(g) ==
    IF g.worker # 0 /\ g.workers[g.worker].state = "running"
      THEN [g EXCEPT !.workers[g.worker].state = "exited",
                     !.workers[g.worker].code = -1,
                     !.worker = 0]
      ELSE [g EXCEPT !.worker = 0]

\* The mutant: on_success is called whatever the exit code is.
env_finished_ignores_code(g, e) ==
    LET g1 == refresh_start_enabled(
                 [g EXCEPT !.env_preparing = FALSE,
                           !.dryrun_fail_seen =
                               (@ \/ (e.code # 0 /\ e.failed_at = "dryrun"))])
        g2 == launch_worker([g1 EXCEPT !.current_env_target = e.target],
                            e.phase)
    IN [g2 EXCEPT !.env_process = 0]

\* _finished(code, _status), the slot of the tool's finished signal
env_finished(g, e) ==
    LET g1 == refresh_start_enabled(
                 [g EXCEPT !.env_preparing = FALSE,
                           !.dryrun_fail_seen =
                               (@ \/ (e.code # 0 /\ e.failed_at = "dryrun"))])
        g2 == IF e.code = 0
                THEN launch_worker([g1 EXCEPT !.current_env_target = e.target],
                                   e.phase)
                ELSE IF g1.stop_enabled
                       THEN refresh_start_enabled(
                               [kill_worker(g1) EXCEPT !.stop_enabled = FALSE])
                       ELSE g1
    IN [g2 EXCEPT !.env_process = 0]

GuiInit ==
    /\ plan_set = FALSE /\ phase_seq = <<>> /\ phase_idx = 0
    /\ worker = 0 /\ env_preparing = FALSE /\ env_process = 0
    /\ current_env_target = "None"
    /\ stop_enabled = FALSE /\ start_enabled = TRUE
    /\ envs = <<>> /\ workers = <<>>
    /\ runs_started = 0
    /\ dryrun_fail_seen = FALSE /\ launched_after_fail = FALSE
    /\ stop_requested = FALSE
    /\ OnceIdle
    /\ RateIdle
    /\ SweepIdle
    /\ ExecIdle
    /\ ApIdle
    /\ PrepIdle
    /\ StreamIdle

\* start_run, the slot of the Start button
StartRun ==
    /\ start_enabled
    /\ runs_started < MaxGuiRuns
    /\ IF worker # 0 \/ env_preparing
         THEN UNCHANGED guiVars
         ELSE \E m \in DOMAIN GUI_MODE_SEQ :
                LET g0 == [GuiState EXCEPT !.run = runs_started + 1,
                                           !.plan_set = TRUE,
                                           !.phase_seq = GUI_MODE_SEQ[m],
                                           !.phase_idx = 0,
                                           !.start_enabled = FALSE,
                                           !.stop_enabled = TRUE,
                                           !.dryrun_fail_seen = FALSE]
                    g1 == start_phase_with_auto_env(g0)
                IN /\ WithinGuiBounds(g1)
                   /\ SetGui(g1)
                   /\ runs_started' = runs_started + 1
                   /\ stop_requested' = FALSE
    /\ UNCHANGED notGuiVars

\* stop_run, the slot of the Stop button.  kill() does nothing to a tool
\* that has already exited and whose finished signal is still to come.
StopRun ==
    /\ stop_enabled
    /\ LET g1 == kill_worker(GuiState)
           g2 == IF g1.env_process = 0 THEN g1
                 ELSE LET i == g1.env_process IN
                      [g1 EXCEPT !.envs[i] =
                                    IF @.pc = "exited" THEN @
                                    ELSE [@ EXCEPT !.pc = "exited",
                                                   !.code = -1,
                                                   !.failed_at = "killed"],
                                 !.env_process = 0,
                                 !.env_preparing = FALSE]
           g3 == refresh_start_enabled([g2 EXCEPT !.stop_enabled = FALSE])
       IN SetGui(g3)
    /\ stop_requested' = TRUE
    /\ UNCHANGED runs_started
    /\ UNCHANGED notGuiVars

\* the finished signal of an environment tool reaches _finished
EnvFinished ==
    /\ \E i \in DOMAIN envs :
          /\ envs[i].pc = "exited"
          /\ LET g == env_finished([GuiState EXCEPT !.envs[i].pc = "delivered"],
                                   envs[i])
             IN WithinGuiBounds(g) /\ SetGui(g)
    /\ UNCHANGED <<runs_started, stop_requested>>
    /\ UNCHANGED notGuiVars

\* a main.py process ends: 0 after "DONE", 1 after an uncaught exception
WorkerExit ==
    /\ \E j \in DOMAIN workers :
          /\ workers[j].state = "running"
          /\ \E code \in {0, 1} :
                workers' = [workers EXCEPT ![j].state = "exited",
                                           ![j].code = code]
    /\ UNCHANGED <<plan_set, phase_seq, phase_idx, worker, env_preparing,
                   env_process, current_env_target, stop_enabled,
                   start_enabled, envs, runs_started, dryrun_fail_seen,
                   launched_after_fail, stop_requested>>
    /\ UNCHANGED notGuiVars

\* finish_run(code), the slot of RunWorker.finished
FinishRun ==
    /\ \E j \in DOMAIN workers :
          /\ workers[j].state = "exited"
          /\ LET g0 == [GuiState EXCEPT !.workers[j].state = "delivered"]
                 g1 == IF g0.worker = j THEN [g0 EXCEPT !.worker = 0]
                       ELSE kill_worker(g0)
                 g2 == IF workers[j].code # 0
                         THEN refresh_start_enabled(
                                 [g1 EXCEPT !.stop_enabled = FALSE])
                         ELSE start_phase_with_auto_env(
                                 [g1 EXCEPT !.phase_idx = @ + 1])
             IN WithinGuiBounds(g2) /\ SetGui(g2)
    /\ UNCHANGED <<runs_started, stop_requested>>
    /\ UNCHANGED notGuiVars

(***************************************************************************)
(* core/restore_asus_cfg.py main(), one action per stage                   *)
(***************************************************************************)

\* an exception reaches the __main__ guard: print FAILED, sys.exit(1)
EnvFail(e, stage) == [e EXCEPT !.pc = "exited", !.code = 1, !.failed_at = stage]

\* what the guiVars other than envs are
guiVarsButEnvs ==
    <<plan_set, phase_seq, phase_idx, worker, env_preparing, env_process,
      current_env_target, stop_enabled, start_enabled, workers, runs_started,
      dryrun_fail_seen, launched_after_fail, stop_requested>>

\* main() of the tool after dut_wifi_soft_reset(): ensure_dut_ap_ready when
\* the target is sta, otherwise straight to the restore
after_reset_without_precondition(target) == "restore"
after_reset(target) ==
    IF target = "sta" THEN "ensure_dut_ap" ELSE "restore"

\* dut_wifi_soft_reset(): every command runs with ignore_error=True
EnvSoftReset ==
    /\ \E i \in DOMAIN envs :
          /\ envs[i].pc = "soft_reset"
          /\ envs' = [envs EXCEPT ![i].pc = after_reset(envs[i].target),
                                  ![i].steps = Append(@, "dut_reset")]
    /\ UNCHANGED guiVarsButEnvs
    /\ UNCHANGED notGuiVars

\* if args.target == "sta": ensure_dut_ap_ready(band): hostapd is started
\* and "wl -i wlan1 status" is read; without an "SSID:" line naming a
\* network the function raises, otherwise it returns
EnvEnsureDutAp ==
    /\ \E i \in DOMAIN envs :
          /\ envs[i].pc = "ensure_dut_ap"
          /\ \/ envs' = [envs EXCEPT ![i].pc = "restore",
                                     ![i].steps = Append(@, "dut_ap_ready")]
             \/ envs' = [envs EXCEPT ![i] = EnvFail(@, "ensure_dut_ap")]
    /\ UNCHANGED guiVarsButEnvs
    /\ UNCHANGED notGuiVars

\* How far "ap = _connect_asus(...); ap.exec(nvram restore); ap.exec(reboot);
\* wait; ap = _connect_asus(...)" gets: the first connect times out, the
\* restore command raises, the connect after the reboot times out, or all of
\* it passes (an exception of the reboot command is caught and printed)
RestoreOutcomes == {"no_ssh", "restore_raises", "no_ssh_after_reboot", "ok"}

\* the commands the peer router has been sent under an outcome
peer_cmds(o) ==
    CASE o = "no_ssh" -> <<>>
      [] o = "restore_raises" -> <<"nvram_restore">>
      [] OTHER -> <<"nvram_restore", "reboot">>

\* _connect_asus, nvram restore, reboot, wait, _connect_asus
EnvRestore ==
    /\ \E i \in DOMAIN envs :
          /\ envs[i].pc = "restore"
          /\ \E o \in RestoreOutcomes :
                LET e == [envs[i] EXCEPT !.steps = @ \o peer_cmds(o)]
                IN envs' = [envs EXCEPT ![i] =
                              IF o = "ok"
                                THEN [e EXCEPT !.pc =
                                        IF e.target = "sta"
                                          THEN "post_bringup"
                                          ELSE "wait_scan"]
                                ELSE EnvFail(e, "restore")]
    /\ UNCHANGED guiVarsButEnvs
    /\ UNCHANGED notGuiVars

\* ensure_dut_sta_connect_asus_ap (target ap), first half:
\* dut_wait_scan_ssid("wlan0", ssid, timeout=90) returns at the first scan
\* that prints FOUND and raises at the deadline; after it returns the
\* supplicant is killed and started again ("wpa_supplicant -B -i wlan0")
scan_steps_start_anyway(found) ==
    IF found THEN <<"scan_found", "wpa_supplicant">> ELSE <<"wpa_supplicant">>
scan_steps(found) ==
    IF found THEN <<"scan_found", "wpa_supplicant">> ELSE <<>>

EnvWaitScan ==
    /\ \E i \in DOMAIN envs :
          /\ envs[i].pc = "wait_scan"
          /\ \E found \in BOOLEAN :
                LET e == [envs[i] EXCEPT !.steps = @ \o scan_steps(found)]
                IN envs' = [envs EXCEPT ![i] =
                              IF found THEN [e EXCEPT !.pc = "wait_assoc"]
                              ELSE EnvFail(e, "scan")]
    /\ UNCHANGED guiVarsButEnvs
    /\ UNCHANGED notGuiVars

\* ensure_dut_sta_connect_asus_ap, second half: "iw wlan0 link" is polled
\* for 60 s; "Connected to" breaks the loop and the address and routes are
\* set, the while's else clause raises
EnvWaitAssoc ==
    /\ \E i \in DOMAIN envs :
          /\ envs[i].pc = "wait_assoc"
          /\ \/ envs' = [envs EXCEPT ![i].pc = "ping",
                                     ![i].steps = Append(@, "associated")]
             \/ envs' = [envs EXCEPT ![i] = EnvFail(@, "assoc")]
    /\ UNCHANGED guiVarsButEnvs
    /\ UNCHANGED notGuiVars

\* wait_asus_sta_assoc(ap, band, timeout=120) (target sta)
EnvPostBringUp ==
    /\ \E i \in DOMAIN envs :
          /\ envs[i].pc = "post_bringup"
          /\ \/ envs' = [envs EXCEPT ![i].pc = "ping"]
             \/ envs' = [envs EXCEPT ![i] = EnvFail(@, "post_bringup")]
    /\ UNCHANGED guiVarsButEnvs
    /\ UNCHANGED notGuiVars

\* config.py: ASUS_AP_IP = ASUS_AP_HOST, and the iperf3 server
ASUS_AP_IP == "192.168.50.1"
IPERF_SERVER == "192.168.50.239"
IPERF_SERVER_AP_TX == IPERF_SERVER
IPERF_SERVER_STA_TX == IPERF_SERVER
IPERF_SERVER_STA_RX == IPERF_SERVER

\* if args.target == "ap": dut_ping(asus_ip) else: dut_ping(iperf_ap)
dut_ping_target(target) ==
    IF target = "ap" THEN ASUS_AP_IP ELSE IPERF_SERVER_AP_TX

\* if args.target == "ap": dut_iperf_dryrun(iperf_sta, ...)
\* else: dut_iperf_dryrun(iperf_ap, ...)
dut_iperf_dryrun_server(target) ==
    IF target = "ap" THEN IPERF_SERVER_STA_TX ELSE IPERF_SERVER_AP_TX

\* server_ip of run_iperf_ap (IPERF_SERVER_AP_TX) and of run_iperf_sta
\* (IPERF_SERVER_STA_TX or IPERF_SERVER_STA_RX) for a phase mode
server_ip(phase_mode) ==
    CASE phase_mode \in {"AP_TX", "AP_RX"} -> IPERF_SERVER_AP_TX
      [] phase_mode = "STA_TX" -> IPERF_SERVER_STA_TX
      [] phase_mode = "STA_RX" -> IPERF_SERVER_STA_RX

\* dut_ping(...): raises after 15 unanswered pings
EnvPing ==
    /\ \E i \in DOMAIN envs :
          /\ envs[i].pc = "ping"
          /\ LET e == [envs[i] EXCEPT
                         !.ping_dst = dut_ping_target(envs[i].target)]
             IN \/ envs' = [envs EXCEPT ![i] = [e EXCEPT !.pc = "dryrun"]]
                \/ envs' = [envs EXCEPT ![i] = EnvFail(e, "ping")]
    /\ UNCHANGED guiVarsButEnvs
    /\ UNCHANGED notGuiVars

\* the two tests dut_iperf_dryrun makes on out.lower()
dryrun_raises(output) ==
    \E k \in DOMAIN output :
        LET low == lower(output[k]) IN
        \/ Contains(low, <<"no", "route", "to", "host">>)
        \/ Contains(low, <<"network", "is", "unreachable">>)
        \/ Contains(low, <<"unable", "to", "connect">>)

\* How `iperf3 -c <server> -p <port> -t 1` can end under run_mssh_once(...,
\* timeout=12, ignore_error=True): it passes and prints its throughput lines,
\* or it fails (non-zero exit status, or killed at the timeout) having
\* printed anything; either way run_mssh_once returns what was printed.
DryrunOutcomes ==
    {o \in [failed : BOOLEAN, output : RealOutputs] :
        ~o.failed => o.output = <<LineData>>}

\* dut_iperf_dryrun(server, port), the last stage before READY (the server
\* is configured in config.py, so the stage is not skipped)
EnvDryrun ==
    /\ \E i \in DOMAIN envs :
          /\ envs[i].pc = "dryrun"
          /\ \E o \in DryrunOutcomes :
                LET e == [envs[i] EXCEPT
                            !.dryrun = IF o.failed THEN "failed" ELSE "passed",
                            !.dryrun_dst =
                                dut_iperf_dryrun_server(envs[i].target)]
                IN envs' = [envs EXCEPT ![i] =
                              IF dryrun_raises(o.output)
                                THEN EnvFail(e, "dryrun")
                                ELSE [e EXCEPT !.pc = "ready"]]
    /\ UNCHANGED guiVarsButEnvs
    /\ UNCHANGED notGuiVars

\* print("ENVIRONMENT READY"); main() returns, the exit status is 0
EnvReady ==
    /\ \E i \in DOMAIN envs :
          /\ envs[i].pc = "ready"
          /\ envs' = [envs EXCEPT ![i].pc = "exited", ![i].code = 0,
                                  ![i].ready = TRUE]
    /\ UNCHANGED guiVarsButEnvs
    /\ UNCHANGED notGuiVars

GuiNext ==
    \/ StartRun
    \/ StopRun
    \/ EnvFinished
    \/ WorkerExit
    \/ FinishRun
    \/ EnvSoftReset
    \/ EnvEnsureDutAp
    \/ EnvRestore
    \/ EnvWaitScan
    \/ EnvWaitAssoc
    \/ EnvPostBringUp
    \/ EnvPing
    \/ EnvDryrun
    \/ EnvReady

SpecGui == GuiInit /\ [][GuiNext]_vars

(***************************************************************************)
(* AsusAP.exec (core/asus_ap.py) and AsusPC.exec (core/asus_pc.py)         *)
(***************************************************************************)

MaxExecCalls == 2

Clients == {"AsusAP", "AsusPC"}

\* what _do_exec can raise: paramiko's SSHException, a socket error, or
\* anything else (not a session-level failure)
ExcKinds == {"SSHException", "OSError", "Other"}

SessionErrors == {"SSHException", "OSError"}

\* The mutant: no except clause at all.
handled_exceptions_none(client) == {}

\* the except clauses around the first _do_exec()
handled_exceptions(client) ==
    IF client = "AsusAP" THEN {"SSHException", "OSError", "AttributeError"}
    ELSE {"SSHException", "OSError"}

Ev(op, res) == [op |-> op, res |-> res]

\* close(): closes the handle if there is one
close_events(s) == IF s = "none" THEN <<>> ELSE <<Ev("close", "ok")>>

ExecInit ==
    /\ ex_client \in Clients
    /\ ssh \in {"none", "alive"}
    /\ exec_pc = "idle"
    /\ exec_trace = <<>>
    /\ exec_result = "none"
    /\ exec_calls = 0
    /\ OnceIdle
    /\ RateIdle
    /\ SweepIdle
    /\ GuiIdle
    /\ ApIdle
    /\ PrepIdle
    /\ StreamIdle

\* the caller enters exec(cmd)
ExecCall ==
    /\ exec_pc = "idle"
    /\ exec_calls < MaxExecCalls
    /\ exec_pc' = "connect"
    /\ exec_trace' = <<>>
    /\ exec_result' = "none"
    /\ exec_calls' = exec_calls + 1
    /\ UNCHANGED <<ex_client, ssh>>
    /\ UNCHANGED notExecVars

\* between two calls the router restarts its radio and the transport dies
TransportDies ==
    /\ exec_pc = "idle"
    /\ ssh = "alive"
    /\ ssh' = "dead"
    /\ UNCHANGED <<ex_client, exec_pc, exec_trace, exec_result, exec_calls>>
    /\ UNCHANGED notExecVars

\* self.connect() at the top of exec: nothing to do on a live transport,
\* otherwise close the dead handle (if any) and open a new session
EntryConnect ==
    /\ exec_pc = "connect"
    /\ IF ssh = "alive"
         THEN /\ exec_pc' = "do"
              /\ UNCHANGED <<ssh, exec_trace, exec_result>>
         ELSE \E ok \in BOOLEAN :
                /\ exec_trace' = exec_trace \o close_events(ssh)
                                   \o <<Ev("connect", IF ok THEN "ok" ELSE "fail")>>
                /\ ssh' = IF ok THEN "alive" ELSE "none"
                /\ exec_pc' = IF ok THEN "do" ELSE "done"
                /\ exec_result' = IF ok THEN exec_result ELSE "raised"
    /\ UNCHANGED <<ex_client, exec_calls>>
    /\ UNCHANGED notExecVars

\* try: return _do_exec()
DoExec ==
    /\ exec_pc = "do"
    /\ \E res \in {"ok"} \cup ExcKinds :
          /\ exec_trace' = Append(exec_trace, Ev("cmd", res))
          /\ ssh' = IF res \in SessionErrors THEN "dead" ELSE ssh
          /\ IF res = "ok"
               THEN exec_pc' = "done" /\ exec_result' = "returned"
               ELSE IF res \in handled_exceptions(ex_client)
                      THEN exec_pc' = "handler" /\ UNCHANGED exec_result
                      ELSE exec_pc' = "done" /\ exec_result' = "raised"
    /\ UNCHANGED <<ex_client, exec_calls>>
    /\ UNCHANGED notExecVars

\* the handler: self.close(); self.connect(force=True)
HandlerReconnect ==
    /\ exec_pc = "handler"
    /\ \E ok \in BOOLEAN :
          /\ exec_trace' = exec_trace \o close_events(ssh)
                             \o <<Ev("connect", IF ok THEN "ok" ELSE "fail")>>
          /\ ssh' = IF ok THEN "alive" ELSE "none"
          /\ exec_pc' = IF ok THEN "retry" ELSE "done"
          /\ exec_result' = IF ok THEN exec_result ELSE "raised"
    /\ UNCHANGED <<ex_client, exec_calls>>
    /\ UNCHANGED notExecVars

\* the handler: return _do_exec(); an exception raised here is not caught
DoExecRetry ==
    /\ exec_pc = "retry"
    /\ \E res \in {"ok"} \cup ExcKinds :
          /\ exec_trace' = Append(exec_trace, Ev("cmd", res))
          /\ ssh' = IF res \in SessionErrors THEN "dead" ELSE ssh
          /\ exec_pc' = "done"
          /\ exec_result' = IF res = "ok" THEN "returned" ELSE "raised"
    /\ UNCHANGED <<ex_client, exec_calls>>
    /\ UNCHANGED notExecVars

\* control is back in the caller
ExecReturn ==
    /\ exec_pc = "done"
    /\ exec_pc' = "idle"
    /\ UNCHANGED <<ex_client, ssh, exec_trace, exec_result, exec_calls>>
    /\ UNCHANGED notExecVars

ExecNext ==
    \/ ExecCall
    \/ TransportDies
    \/ EntryConnect
    \/ DoExec
    \/ HandlerReconnect
    \/ DoExecRetry
    \/ ExecReturn

SpecExec == ExecInit /\ [][ExecNext]_vars

(***************************************************************************)
(* AP bring-up: core/wifi_channel.py set_ap_channel_and_bw_band            *)
(***************************************************************************)

\* _wait_ap_enabled polls until a deadline AP_READY_TIMEOUT_SEC away; at most
\* MaxPolls iterations of its loop fit in before the deadline has passed.
MaxPolls == 3

\* the widths and channels the bring-up is asked for
ApWidths == {20, 40, 80}
ApChannels == {36, 40}

\* CENTER_80M = {36: 42, 149: 155}
CENTER_80M == [c \in {36, 149} |-> IF c = 36 THEN 42 ELSE 155]

\* What "wl -i wlan1 chanspec" can print as its first word: nothing (<<>>, the
\* command failed or printed nothing), a 20 MHz, 40 MHz or 80 MHz chanspec of
\* channel 36 or 40, or something else.
Tokens ==
    { <<>>,
      <<"3", "6">>, <<"3", "6", "l">>, <<"3", "6", "u">>, <<"3", "6", "L">>,
      <<"3", "6", "/", "8", "0">>, <<"3", "6", "0">>,
      <<"4", "0">>, <<"4", "0", "u">>, <<"4", "0", "/", "8", "0">>,
      <<"w", "l", ":">> }

\* how many characters the greedy group (\d+) takes at the start of a token
RECURSIVE DigitPrefixLen(_)
DigitPrefixLen(t) ==
    IF t = <<>> \/ Head(t) \notin DOMAIN DigitVal THEN 0
    ELSE 1 + DigitPrefixLen(Tail(t))

\* _CHANSPEC_RE.match(token) for r"^(\d+)([lu]?)" with re.IGNORECASE: None,
\* or the two groups
CHANSPEC_RE_match(token) ==
    LET n == DigitPrefixLen(token) IN
    IF n = 0 THEN [found |-> FALSE, g1 |-> <<>>, g2 |-> <<>>]
    ELSE [found |-> TRUE,
          g1 |-> SubSeq(token, 1, n),
          g2 |-> IF Len(token) > n /\ token[n + 1] \in {"l", "u", "L", "U"}
                   THEN <<token[n + 1]>> ELSE <<>>]

\* _wl_set_chanspec._match(token) for the requested width w and channel c
match(token, w, c) ==
    LET m == CHANSPEC_RE_match(token)
        got_ch == PyInt(m.g1)
        suffix == m.g2
    IN IF ~m.found THEN FALSE
       ELSE IF w = 20 THEN got_ch = c /\ suffix = <<>>
       ELSE IF w = 40 THEN got_ch = c /\ suffix \in {<<"l">>, <<"u">>}
       ELSE IF w = 80 THEN got_ch = c
       ELSE FALSE

\* The mutant: any non-empty read-back ends the loop of _wl_set_chanspec.
chanspec_locked_any_token(cs, w, c) == cs # <<>>

\* if cs: token = cs.split()[0]; if _match(token): return
chanspec_locked(cs, w, c) == cs # <<>> /\ match(cs, w, c)

\* for attempt in range(1, 4)
chanspec_attempts == 3

\* The mutant: the control socket alone counts as enabled.
wait_ap_enabled_sees_socket_only(ready, enabled) == ready

\* "READY" in out, then "state=ENABLED" in s
wait_ap_enabled_sees(ready, enabled) == ready /\ enabled

ApInit ==
    /\ ap_pc = "cleanup"
    /\ ap_band \in Bands
    /\ IF ap_band = "5G"
         THEN ap_bw \in ApWidths /\ ap_ch \in ApChannels
         ELSE ap_bw = 20 /\ ap_ch = 6
    /\ cs_attempt = 0 /\ last_raw = <<>> /\ cs_matched = FALSE
    /\ conf_patched = FALSE /\ hostapd_started = FALSE
    /\ ap_polls = 0 /\ ready_seen = FALSE /\ enabled_seen = FALSE
    /\ ap_info = "none"
    /\ wl_primary = 0 /\ final_primary = 0
    /\ OnceIdle
    /\ RateIdle
    /\ SweepIdle
    /\ GuiIdle
    /\ ExecIdle
    /\ PrepIdle
    /\ StreamIdle

\* killall hostapd, pkill -9 hostapd, rm -rf /var/run/hostapd; 5G: _iface_up
\* and the kills at the head of _wl_set_chanspec; 2G: pkill wpa_supplicant and
\* the address.  _sh never raises.
ApCleanup ==
    /\ ap_pc = "cleanup"
    /\ ap_pc' = IF ap_band = "5G" THEN "chanspec" ELSE "start"
    /\ UNCHANGED <<ap_band, ap_bw, ap_ch, cs_attempt, last_raw, cs_matched,
                   conf_patched, hostapd_started, ap_polls, ready_seen,
                   enabled_seen, ap_info>>
    /\ UNCHANGED <<wl_primary, final_primary>>
    /\ UNCHANGED notApVars

\* One iteration of the loop of _wl_set_chanspec: wl down, chanspec, up, the
\* read-back; return on a match, RuntimeError after the third iteration.
WlSetChanspec ==
    /\ ap_pc = "chanspec"
    /\ \E cs \in Tokens :
          /\ cs_attempt' = cs_attempt + 1
          /\ last_raw' = IF cs # <<>> THEN cs ELSE last_raw
          /\ cs_matched' = (cs # <<>> /\ match(cs, ap_bw, ap_ch))
          /\ IF chanspec_locked(cs, ap_bw, ap_ch)
               THEN ap_pc' = "conf" /\ ap_info' = ap_info
               ELSE IF cs_attempt + 1 < chanspec_attempts
                      THEN ap_pc' = "chanspec" /\ ap_info' = ap_info
                      ELSE ap_pc' = "raised" /\ ap_info' = "error"
    /\ UNCHANGED <<ap_band, ap_bw, ap_ch, conf_patched, hostapd_started,
                   ap_polls, ready_seen, enabled_seen>>
    /\ UNCHANGED <<wl_primary, final_primary>>
    /\ UNCHANGED notApVars

\* cp <template> RUNTIME_CONF, _apply_channel_to_conf,
\* _apply_vht_center_if_needed (raises for width 80 on a channel that has no
\* entry in CENTER_80M); BW_TEMPLATE has the three widths
PatchConf ==
    /\ ap_pc = "conf"
    /\ conf_patched' = TRUE
    /\ IF ap_bw = 80 /\ ap_ch \notin DOMAIN CENTER_80M
         THEN ap_pc' = "raised" /\ ap_info' = "error"
         ELSE ap_pc' = "start" /\ ap_info' = ap_info
    /\ UNCHANGED <<ap_band, ap_bw, ap_ch, cs_attempt, last_raw, cs_matched,
                   hostapd_started, ap_polls, ready_seen, enabled_seen>>
    /\ UNCHANGED <<wl_primary, final_primary>>
    /\ UNCHANGED notApVars

\* ifconfig wlan1 192.168.50.100 up; hostapd -B ...
StartHostapd ==
    /\ ap_pc = "start"
    /\ hostapd_started' = TRUE
    /\ ap_pc' = "wait"
    /\ UNCHANGED <<ap_band, ap_bw, ap_ch, cs_attempt, last_raw, cs_matched,
                   conf_patched, ap_polls, ready_seen, enabled_seen, ap_info>>
    /\ UNCHANGED <<wl_primary, final_primary>>
    /\ UNCHANGED notApVars

\* what the final "wl -i wlan1 status" can show as "Primary channel: <n>";
\* 0 stands for an output without such a line (_sh never raises)
WlPrimaries == ApChannels \cup {6, 11} \cup {0}

\* _parse_primary_channel: the number after "Primary channel:", or
\* RuntimeError when _PRIMARY_RE finds nothing
parse_primary_channel(seen) ==
    IF seen = 0 THEN [raised |-> TRUE, value |-> 0]
    ELSE [raised |-> FALSE, value |-> seen]

\* final_primary of the returned dict: the parsed channel, and when the
\* parse raises the requested channel (5G: final_primary = ch) or 6 (2G)
final_primary_of(b, c, seen) ==
    IF ~parse_primary_channel(seen).raised
      THEN parse_primary_channel(seen).value
      ELSE IF b = "5G" THEN c ELSE 6

\* One iteration of the loop of _wait_ap_enabled: test -S <socket>, and when
\* it exists hostapd_cli status.  On True the caller reads "wl status",
\* computes final_primary and returns the dict with status "OK".
WaitApEnabledPoll ==
    /\ ap_pc = "wait"
    /\ ap_polls < MaxPolls
    /\ \E ready \in BOOLEAN, enabled \in BOOLEAN :
          /\ ap_polls' = ap_polls + 1
          /\ ready_seen' = ready
          /\ enabled_seen' = (ready /\ enabled)
          /\ IF wait_ap_enabled_sees(ready, enabled)
               THEN /\ ap_pc' = "returned" /\ ap_info' = "OK"
                    /\ \E seen \in WlPrimaries :
                          /\ wl_primary' = seen
                          /\ final_primary' =
                                final_primary_of(ap_band, ap_ch, seen)
               ELSE /\ ap_pc' = "wait" /\ ap_info' = ap_info
                    /\ UNCHANGED <<wl_primary, final_primary>>
    /\ UNCHANGED <<ap_band, ap_bw, ap_ch, cs_attempt, last_raw, cs_matched,
                   conf_patched, hostapd_started>>
    /\ UNCHANGED notApVars

\* time.time() >= deadline: _wait_ap_enabled returns False and the caller
\* raises RuntimeError
WaitApEnabledDeadline ==
    /\ ap_pc = "wait"
    /\ ap_polls >= 1
    /\ ap_pc' = "raised"
    /\ ap_info' = "error"
    /\ UNCHANGED <<ap_band, ap_bw, ap_ch, cs_attempt, last_raw, cs_matched,
                   conf_patched, hostapd_started, ap_polls, ready_seen,
                   enabled_seen>>
    /\ UNCHANGED <<wl_primary, final_primary>>
    /\ UNCHANGED notApVars

ApNext ==
    \/ ApCleanup
    \/ WlSetChanspec
    \/ PatchConf
    \/ StartHostapd
    \/ WaitApEnabledPoll
    \/ WaitApEnabledDeadline

SpecAp == ApInit /\ [][ApNext]_vars

(***************************************************************************)
(* STA bring-up: core/sta.py sta_prepare                                   *)
(***************************************************************************)

\* wait_connected polls until a deadline link_timeout_sec away; at most
\* MaxLinkPolls iterations of its loop fit in before the deadline has passed.
MaxLinkPolls == 3

\* retry: int = 3
retry == 3

\* What "iw wlan0 link" can print (stdout and stderr are merged and the
\* command runs with ignore_error=True): nothing, "Not connected.", the
\* report of an association, or the message of a command that failed.
LinkNotConnected == <<"Not connected.">>
LinkConnected ==
    <<"Connected to 04:d4:c4:00:00:01 (on wlan0)", "SSID: ASUS_5G",
      "freq: 5180", "signal: -45 dBm">>
LinkCommandFailed == <<"command failed: No such device (-19)">>
LinkOutputs == {<<>>, LinkNotConnected, LinkConnected, LinkCommandFailed}

\* STARole.get_link_info(): connected is False for an empty output and for
\* one that holds "Not connected.", and True for every other output
get_link_info(output) ==
    IF output = <<>> THEN FALSE
    ELSE IF \E i \in DOMAIN output : output[i] = "Not connected." THEN FALSE
    ELSE TRUE

PrepInit ==
    /\ prep_pc = "kill"
    /\ prep_attempt = 1
    /\ prep_killed = FALSE
    /\ link_polls = 0 /\ link_raw = <<>> /\ info_connected = FALSE
    /\ ip_applied = FALSE /\ ip_failed = FALSE /\ prep_result = "none"
    /\ OnceIdle
    /\ RateIdle
    /\ SweepIdle
    /\ GuiIdle
    /\ ExecIdle
    /\ ApIdle
    /\ StreamIdle

\* time.sleep(retry_backoff_sec) and the next attempt, or RuntimeError after
\* the last one
PrepRetry(applied) ==
    IF prep_attempt < retry
      THEN /\ prep_attempt' = prep_attempt + 1
           /\ prep_pc' = "kill"
           /\ prep_killed' = FALSE
           /\ ip_applied' = FALSE
           /\ link_polls' = 0
           /\ info_connected' = FALSE
           /\ prep_result' = prep_result
      ELSE /\ prep_pc' = "raised"
           /\ prep_result' = "raised"
           /\ ip_applied' = applied
           /\ UNCHANGED <<prep_attempt, prep_killed, link_polls,
                          info_connected>>

\* _kill_wpa_supplicant(iface); ifconfig <iface> up  (all best effort)
PrepKillSupplicant ==
    /\ prep_pc = "kill"
    /\ prep_killed' = TRUE
    /\ prep_pc' = "start_wpa"
    /\ UNCHANGED <<prep_attempt, link_polls, link_raw, info_connected,
                   ip_applied, ip_failed, prep_result>>
    /\ UNCHANGED notPrepVars

\* wpa_supplicant -B -c <conf> -i <iface> with ignore_error=False: it runs, or
\* its exception is caught and ends the attempt
PrepStartSupplicant ==
    /\ prep_pc = "start_wpa"
    /\ \/ /\ prep_pc' = "wait_link"
          /\ UNCHANGED <<prep_attempt, prep_killed, link_polls,
                         info_connected, ip_applied, prep_result>>
       \/ PrepRetry(FALSE)
    /\ UNCHANGED <<link_raw, ip_failed>>
    /\ UNCHANGED notPrepVars

\* one iteration of the loop of wait_connected
PrepLinkPoll ==
    /\ prep_pc = "wait_link"
    /\ link_polls < MaxLinkPolls
    /\ \E output \in LinkOutputs :
          /\ link_raw' = output
          /\ link_polls' = link_polls + 1
          /\ info_connected' = get_link_info(output)
          /\ prep_pc' = IF get_link_info(output) THEN "assign_ip"
                        ELSE "wait_link"
    /\ UNCHANGED <<prep_attempt, prep_killed, ip_applied, ip_failed,
                   prep_result>>
    /\ UNCHANGED notPrepVars

\* time.time() >= deadline: wait_connected returns the last, unconnected info
PrepLinkTimeout ==
    /\ prep_pc = "wait_link"
    /\ link_polls >= 1
    /\ prep_pc' = "assign_ip"
    /\ UNCHANGED <<prep_attempt, prep_killed, link_polls, link_raw,
                   info_connected, ip_applied, ip_failed, prep_result>>
    /\ UNCHANGED notPrepVars

\* ifconfig <iface> <ip> || true with ignore_error=True; then
\* if last["connected"]: return last, else the attempt is over
PrepAssignIp ==
    /\ prep_pc = "assign_ip"
    /\ \E ok \in BOOLEAN : ip_failed' = (ip_failed \/ ~ok)
    /\ IF info_connected
         THEN /\ prep_pc' = "returned"
              /\ prep_result' = "returned"
              /\ ip_applied' = TRUE
              /\ UNCHANGED <<prep_attempt, prep_killed, link_polls,
                             info_connected>>
         ELSE PrepRetry(TRUE)
    /\ UNCHANGED link_raw
    /\ UNCHANGED notPrepVars

PrepNext ==
    \/ PrepKillSupplicant
    \/ PrepStartSupplicant
    \/ PrepLinkPoll
    \/ PrepLinkTimeout
    \/ PrepAssignIp

SpecPrep == PrepInit /\ [][PrepNext]_vars

(***************************************************************************)
(* run_mssh_stream (core/dut.py)                                           *)
(***************************************************************************)

\* how many lines the remote command prints at most
MaxLines == 2

\* subprocess.Popen(MSSH_BASE + [cmd], ..., start_new_session=True); the
\* body of the generator starts to run at the consumer's first next()
StreamInit ==
    /\ st_pc = "reading"
    /\ st_p = "running"
    /\ st_pipe = <<>> /\ st_produced = 0 /\ st_yielded = <<>>
    /\ kill_event = FALSE
    /\ st_signals = <<>>
    /\ st_leave = "none"
    /\ OnceIdle
    /\ RateIdle
    /\ SweepIdle
    /\ GuiIdle
    /\ ExecIdle
    /\ ApIdle
    /\ PrepIdle

\* the remote command prints its next line
StreamProcWriteLine ==
    /\ st_p = "running"
    /\ st_produced < MaxLines
    /\ st_produced' = st_produced + 1
    /\ st_pipe' = Append(st_pipe, st_produced + 1)
    /\ UNCHANGED <<st_pc, st_p, st_yielded, kill_event, st_signals, st_leave>>
    /\ UNCHANGED notStreamVars

\* the process closes its standard output while it is still alive
StreamProcCloseStdout ==
    /\ st_p = "running"
    /\ st_p' = "closing"
    /\ UNCHANGED <<st_pc, st_pipe, st_produced, st_yielded, kill_event,
                   st_signals, st_leave>>
    /\ UNCHANGED notStreamVars

\* the process ends, by itself or because of a SIGTERM it was sent (a
\* process may also ignore SIGTERM; SIGKILL ends it in the kill step)
StreamProcExit ==
    /\ st_p \in {"running", "closing"}
    /\ st_p' = "exited"
    /\ UNCHANGED <<st_pc, st_pipe, st_produced, st_yielded, kill_event,
                   st_signals, st_leave>>
    /\ UNCHANGED notStreamVars

\* another thread sets the threading.Event
SetKillEvent ==
    /\ ~kill_event
    /\ st_pc # "finished"
    /\ kill_event' = TRUE
    /\ UNCHANGED <<st_pc, st_p, st_pipe, st_produced, st_yielded, st_signals,
                   st_leave>>
    /\ UNCHANGED notStreamVars

\* for line in p.stdout: if kill_event and kill_event.is_set(): break
\*                       yield line
StreamReadLine ==
    /\ st_pc = "reading"
    /\ st_pipe # <<>>
    /\ st_pipe' = Tail(st_pipe)
    /\ IF kill_event
         THEN /\ st_pc' = "finally" /\ st_leave' = "cancel"
              /\ UNCHANGED st_yielded
         ELSE /\ st_pc' = "suspended"
              /\ st_yielded' = Append(st_yielded, Head(st_pipe))
              /\ UNCHANGED st_leave
    /\ UNCHANGED <<st_p, st_produced, kill_event, st_signals>>
    /\ UNCHANGED notStreamVars

\* the for loop ends at the end of file of p.stdout
StreamEof ==
    /\ st_pc = "reading"
    /\ st_pipe = <<>>
    /\ st_p \in {"closing", "exited"}
    /\ st_pc' = "finally" /\ st_leave' = "eof"
    /\ UNCHANGED <<st_p, st_pipe, st_produced, st_yielded, kill_event,
                   st_signals>>
    /\ UNCHANGED notStreamVars

\* the consumer asks for the next line
ConsumerNext ==
    /\ st_pc = "suspended"
    /\ st_pc' = "reading"
    /\ UNCHANGED <<st_p, st_pipe, st_produced, st_yielded, kill_event,
                   st_signals, st_leave>>
    /\ UNCHANGED notStreamVars

\* the consumer leaves its loop and drops the generator: GeneratorExit is
\* raised at the yield and the finally clause runs
ConsumerAbandon ==
    /\ st_pc = "suspended"
    /\ st_pc' = "finally" /\ st_leave' = "abandon"
    /\ UNCHANGED <<st_p, st_pipe, st_produced, st_yielded, kill_event,
                   st_signals>>
    /\ UNCHANGED notStreamVars

\* finally: if p.poll() is None: os.killpg(p.pid, SIGTERM) (p.terminate()
\* when killpg raises)
StreamFinallyTerm ==
    /\ st_pc = "finally"
    /\ st_signals' = IF st_p # "exited" THEN Append(st_signals, "SIGTERM")
                     ELSE st_signals
    /\ st_pc' = "wait"
    /\ UNCHANGED <<st_p, st_pipe, st_produced, st_yielded, kill_event,
                   st_leave>>
    /\ UNCHANGED notStreamVars

\* try: p.wait(timeout=2)  except Exception: _kill_process_tree(p)
StreamFinallyWait ==
    /\ st_pc = "wait"
    /\ st_pc' = IF st_p = "exited" THEN "finished" ELSE "tree_poll"
    /\ UNCHANGED <<st_p, st_pipe, st_produced, st_yielded, kill_event,
                   st_signals, st_leave>>
    /\ UNCHANGED notStreamVars

\* _kill_process_tree: if p.poll() is not None: return; killpg(SIGTERM)
StreamKillTreeTerm ==
    /\ st_pc = "tree_poll"
    /\ IF st_p = "exited"
         THEN st_pc' = "finished" /\ UNCHANGED st_signals
         ELSE /\ st_pc' = "tree_wait"
              /\ st_signals' = Append(st_signals, "SIGTERM")
    /\ UNCHANGED <<st_p, st_pipe, st_produced, st_yielded, kill_event,
                   st_leave>>
    /\ UNCHANGED notStreamVars

\* the same without the escalation to SIGKILL
StreamKillTreeWaitNoEscalation ==
    /\ st_pc = "tree_wait"
    /\ st_pc' = "finished"
    /\ UNCHANGED <<st_p, st_pipe, st_produced, st_yielded, kill_event,
                   st_signals, st_leave>>
    /\ UNCHANGED notStreamVars

\* _kill_process_tree: p.wait(timeout=2); return -- or killpg(SIGKILL)
StreamKillTreeWait ==
    /\ st_pc = "tree_wait"
    /\ st_pc' = "finished"
    /\ IF st_p = "exited"
         THEN UNCHANGED <<st_p, st_signals>>
         ELSE /\ st_signals' = Append(st_signals, "SIGKILL")
              /\ st_p' = "exited"
    /\ UNCHANGED <<st_pipe, st_produced, st_yielded, kill_event, st_leave>>
    /\ UNCHANGED notStreamVars

StreamNext ==
    \/ StreamProcWriteLine
    \/ StreamProcCloseStdout
    \/ StreamProcExit
    \/ SetKillEvent
    \/ StreamReadLine
    \/ StreamEof
    \/ ConsumerNext
    \/ ConsumerAbandon
    \/ StreamFinallyTerm
    \/ StreamFinallyWait
    \/ StreamKillTreeTerm
    \/ StreamKillTreeWait

SpecStream == StreamInit /\ [][StreamNext]_vars


(***************************************************************************)
(* Claims about run_mssh_once (checked under SpecOnce)                     *)
(***************************************************************************)

OnceDone == once_pc = "done"

SigNames == [i \in 1..Len(signals) |-> signals[i].sig]

\* C9 (as stated): when run_mssh_once exceeds its timeout, the spawned
\* process group is sent SIGTERM and, if it has not exited within the grace
\* window, SIGKILL, before the call returns or raises; once the call has
\* completed the spawned process is no longer alive.
C9_AsStated ==
    (OnceDone /\ timed_out) =>
        /\ Len(signals) >= 1
        /\ signals[1] = [sig |-> "SIGTERM", to |-> "group"]
        /\ (wait_result = "expired") =>
              (Len(signals) = 2 /\ signals[2] = [sig |-> "SIGKILL", to |-> "group"])
        /\ p_state = "exited"

\* C9 (amended): when run_mssh_once exceeds its timeout and the process is
\* still running when _kill_process_tree polls it, SIGTERM is sent (to the
\* process group, or to the process itself when the group signal raises) and,
\* if the process has not exited within the grace window, SIGKILL is sent the
\* same way, and nothing else; when the poll finds the process already
\* exited no signal is sent at all.  In every case the spawned process is no
\* longer alive once the call has returned or raised.
C9_KillOnTimeout ==
    (OnceDone /\ timed_out) =>
        /\ p_state = "exited"
        /\ polled_dead => signals = <<>>
        /\ (~polled_dead /\ wait_result = "exited") => SigNames = <<"SIGTERM">>
        /\ (~polled_dead /\ wait_result = "expired") =>
              SigNames = <<"SIGTERM", "SIGKILL">>
        /\ ~polled_dead => wait_result \in {"exited", "expired"}

\* The grace window expired and the call escalated to SIGKILL.
C9_Witness ==
    /\ OnceDone
    /\ timed_out
    /\ wait_result = "expired"
    /\ Len(signals) = 2

\* C10: with ignore_error=False run_mssh_once raises when the command timed
\* out and when it exited non-zero, and returns the output otherwise; with
\* ignore_error=True it raises in neither case and returns the captured
\* output, the empty string when nothing was captured.
C10_ErrorPolicy ==
    OnceDone =>
        IF ignore_error
          THEN /\ once_result.kind = "return"
               /\ once_result.val = (IF out = "text" THEN "text" ELSE "")
          ELSE IF timed_out
                 THEN once_result = [kind |-> "raise", val |-> "timeout"]
                 ELSE IF returncode # 0
                        THEN once_result = [kind |-> "raise", val |-> "rc"]
                        ELSE once_result = [kind |-> "return", val |-> p_output]

\* A timed-out command whose error is ignored: the call returned.
C10_Witness ==
    /\ OnceDone
    /\ ignore_error
    /\ timed_out
    /\ once_result.kind = "return"

(***************************************************************************)
(* Claims about the 2.4 GHz rate classifier (checked under SpecRate)       *)
(***************************************************************************)

InSweep ==
    main_pc \in {"rate_head", "main_warmup", "rx_lock", "clear_2g", "runner",
                 "ap_warmup", "ap_logger", "ap_real", "ap_recover",
                 "sta_lock", "sta_real"}

\* C1: with the rate selector "auto" the rate plan of an iteration is
\* non-empty and is exactly 8,7,...,0 for 5 GHz width 20, 9,8,...,0 for 5 GHz
\* widths 40 and 80, and 15,14,13,12,11,10,9,8,54,11 for 2.4 GHz.
C1_AutoRatePlan ==
    (InSweep /\ mcs_arg = Auto) =>
        /\ mcs_list # <<>>
        /\ (band = "5G" /\ bw = 20) => mcs_list = <<8, 7, 6, 5, 4, 3, 2, 1, 0>>
        /\ (band = "5G" /\ bw \in {40, 80}) =>
              mcs_list = <<9, 8, 7, 6, 5, 4, 3, 2, 1, 0>>
        /\ band = "2G" => mcs_list = <<15, 14, 13, 12, 11, 10, 9, 8, 54, 11>>

\* The last rate of the 20 MHz plan is being run with the selector "auto".
C1_Witness ==
    /\ main_pc = "ap_real"
    /\ mcs_arg = Auto
    /\ band = "5G" /\ bw = 20
    /\ mi = Len(mcs_list) /\ mcs = 0

\* C3 (as stated): across one run no (band, width, channel, direction) key
\* has more than one warm-up transfer executed for it.
C3_WarmupAtMostOnce ==
    \A i, j \in DOMAIN warmups : warmups[i] = warmups[j] => i = j

\* C4 (as stated): when the read-back of a rate lock disagrees with the
\* request or cannot be read, the rate-lock step lets no exception reach
\* main(), so the sweep is not aborted by it.
C4_VerifyNeverAborts ==
    verify_seen \in {"mismatch", "unreadable"} =>
        ~(pending_exc /\ abort_at \in {"rx_rate_lock", "ap_rate_lock",
                                       "sta_rate_lock"})

\* C6: a run with band 5G, widths [20], channels [36] and rate "auto" in
\* which every device step succeeds makes exactly 9 real runs, for MCS
\* 8,7,...,0 in that order, and each creates one log file of its own whose
\* name has CH36 and the MCS of that run in it.
C6_Scenario5G ==
    /\ (band = "5G" /\ clean) => tp_streams <= 1
    /\ ( /\ main_pc = "done" /\ clean
         /\ band = "5G" /\ bw_list = <<20>> /\ ch_list = <<36>>
         /\ mcs_arg = Auto )
       => /\ runs = <<8, 7, 6, 5, 4, 3, 2, 1, 0>>
          /\ Len(logs) = 9
          /\ \A i \in 1..9 :
                /\ Contains(logs[i], <<"_CH", "36", "_MCS", ToString(runs[i]), ".txt">>)
                /\ \A j \in 1..9 : logs[i] = logs[j] => i = j

\* The 5G scenario has run to its end without a failing device step.
C6_Witness ==
    /\ main_pc = "done" /\ clean
    /\ band = "5G" /\ bw_list = <<20>> /\ ch_list = <<36>> /\ mcs_arg = Auto
    /\ Len(runs) = 9

\* C7: a run with band 2G, widths [20], channels [6] and rate "auto" in which
\* every device step succeeds makes exactly 10 real runs, in the order of the
\* rate values 15,14,13,12,11,10,9,8,54,11.
C7_Scenario2G ==
    /\ (band = "2G" /\ clean) => tp_streams <= 1
    /\ ( /\ main_pc = "done" /\ clean
         /\ band = "2G" /\ bw_list = <<20>> /\ ch_list = <<6>>
         /\ mcs_arg = Auto )
       => runs = <<15, 14, 13, 12, 11, 10, 9, 8, 54, 11>>

\* The 2G scenario has run to its end without a failing device step.
C7_Witness ==
    /\ main_pc = "done" /\ clean
    /\ band = "2G" /\ bw_list = <<20>> /\ ch_list = <<6>> /\ mcs_arg = Auto
    /\ Len(runs) = 10

RECURSIVE PlanPoints(_)
PlanPoints(p) ==
    IF p = <<>> THEN <<>>
    ELSE [i \in 1..Len(Head(p).rates) |-> <<Head(p).phy, Head(p).rates[i]>>]
         \o PlanPoints(Tail(p))

\* the TestPoints of one (width, channel) iteration of main()
IterPoints(w, c) ==
    LET plan == IF band = "5G"
                  THEN LET l == parse_mcs_list(band, w, mcs_arg)
                       IN [i \in 1..Len(l) |-> <<"mcs", l[i]>>]
                  ELSE IF w = 20 THEN PlanPoints(RATE_SWEEP_2G_PLAN) ELSE <<>>
    IN [i \in 1..Len(plan) |->
          [band |-> band, bw |-> w,
           role |-> IF is_sta_mode THEN "STA" ELSE "AP",
           direction |-> mode_cfg.direction, ch |-> c, rate |-> plan[i]]]

\* the TestPoints of the whole run: for bw in args.bw: for ch in args.ch
RECURSIVE PointsFrom(_, _)
PointsFrom(b, c) ==
    IF b > Len(bw_list) THEN <<>>
    ELSE IF c > Len(ch_list) THEN PointsFrom(b + 1, 1)
    ELSE IterPoints(bw_list[b], ch_list[c]) \o PointsFrom(b, c + 1)

RunPoints == PointsFrom(1, 1)

\* C13: in a run that came to its end with every TestPoint having opened its
\* log artifact, the artifacts of two distinct TestPoints (differing in band,
\* width, role, direction, channel or rate descriptor) have different paths.
C13_OneArtifactPerPoint ==
    (main_pc = "done" /\ Len(logs) = Len(RunPoints))
    => \A i, j \in DOMAIN logs :
          RunPoints[i] # RunPoints[j] => logs[i] # logs[j]

\* C12: at every point of a run at most one remote-shell session to the peer
\* router is open.  The AsusAP and AsusPC objects of main() all address the
\* same router (ASUS_AP_IP = ASUS_STA_IP = ASUS_AP_HOST, one control port).
C12_SingleSession == Cardinality(sessions) <= 1

\* C14: a failing role bring-up aborts only its own (width, channel)
\* iteration: main() never ends on the exception of a bring-up while points
\* of the matrix are still to come.
C14_BringUpFailureIsLocal ==
    ~( /\ main_pc = "aborted"
       /\ abort_at = "bringup"
       /\ (bi < Len(bw_list) \/ ci < Len(ch_list)) )

\* C15: a failure local to one TestPoint never aborts the sweep: main() does
\* not end on the exception of the hostapd recovery step of a TestPoint while
\* TestPoints of the matrix are still to come.
C15_PointFailureIsLocal ==
    ~( /\ main_pc = "aborted"
       /\ abort_at = "hostapd_restart"
       /\ (mi < Len(mcs_list) \/ bi < Len(bw_list) \/ ci < Len(ch_list)) )

\* the exit status of the main.py process: 0 after print("DONE"), 1 when an
\* exception left main(); none while it runs
main_exit_status ==
    CASE main_pc = "done" -> "0"
      [] main_pc = "aborted" -> "1"
      [] OTHER -> "none"

\* C16: the final status of a run indicates failure if and only if a
\* TestPoint of the run recorded a data-plane failure; here, a run whose last
\* TestPoint returned the failed result does not end with the status of
\* success.
C16_StatusReflectsFailures ==
    (main_exit_status # "none" /\ tp_result = "fail") => main_exit_status # "0"

\* C20: when a real timed run of a TestPoint has started, in AP and in STA
\* modes, a warm-up transfer for the TestPoint's (band, width, channel,
\* direction) key has been made before.
C20_WarmupBeforeRealRun ==
    (InSweep /\ tp_streams > 0)
    => \E k \in DOMAIN warmups :
          warmups[k] = warmup_key(band, bw, ch, mode_cfg.direction)

\* C21: while the DUT holds the AP role, in both bands, no throughput
\* transfer (warm-up or real run) of a (band, width, channel) iteration is
\* started before the peer station was observed associated after that
\* iteration's bring-up.
C21_AssocBeforeTransfer ==
    [][(/\ mode_cfg.need_dut_ap
        /\ (warmups' # warmups \/ tp_streams' > tp_streams))
       => assoc_seen]_vars

\* the rate descriptors that are legal for a band and a width
LegalRate(b, w, r) ==
    IF b = "5G"
      THEN IF w = 20 THEN r \in 0..8 ELSE r \in 0..9
      ELSE \E i \in DOMAIN RATE_SWEEP_2G_PLAN :
              \E j \in DOMAIN RATE_SWEEP_2G_PLAN[i].rates :
                  RATE_SWEEP_2G_PLAN[i].rates[j] = r

\* C22: every TestPoint the orchestrator attempts has a rate that is legal
\* for its band and width (5 GHz width 20: 0..8; 5 GHz width 40 and 80: 0..9;
\* 2.4 GHz: a value of the fixed plan), also when one explicit rate is given
\* together with several widths.
C22_LegalRates ==
    (InSweep /\ main_pc # "rate_head") => LegalRate(band, bw, mcs)

\* a step in which the transmit side leaves its rate-lock block with the
\* rate command issued (AsusPC in the 5 GHz RX modes, run_iperf_ap and
\* run_iperf_sta otherwise)
TxLockApplied ==
    \/ main_pc = "rx_lock" /\ main_pc' = "runner"
    \/ /\ main_pc = "runner" /\ main_pc' = "ap_warmup"
       /\ ~(band = "5G" /\ is_rx_mode)
    \/ /\ main_pc = "sta_lock" /\ main_pc' = "sta_real"
       /\ ~(band = "5G" /\ is_rx_mode)

\* C23: for every TestPoint of every mode and band, the fixed-rate override
\* of the receive side has been cleared to automatic rate selection (since
\* that side was last locked) before the transmit side applies its new
\* fixed rate.
C23_ClearBeforeLock == [][TxLockApplied => rx_cleared']_vars

\* C24: in every rate-lock path the fixed-rate command is attempted at most
\* 2 times, and when all attempts fail the failure is not raised: the
\* orchestrator continues without override and the TestPoint's throughput
\* run is still executed.
C24_LockRetriesDegrade ==
    /\ lock_cmds <= 2
    /\ abort_at \notin {"rx_rate_lock", "sta_rate_lock"}
    /\ ~(abort_at = "ap_rate_lock" /\ mode_cfg.direction = "RX")

\* the DUT is the AP and a TestPoint is inside the real-run loop
InApLoop == main_pc \in {"ap_real", "ap_recover"}

\* the budget of the real-run loop, as counters of one TestPoint
ApLoopBudget ==
    (mode_cfg.need_dut_ap /\ InSweep)
    => /\ outer_try \in 1..3
       /\ recover_try \in 0..2
       /\ tp_streams <= 3 * outer_try
       /\ restart_calls <= 2 * outer_try
       /\ mode_cfg.direction = "RX" => (restart_calls = 0 /\ recover_try = 0)

\* what one step of the loop does: a stream or a recovery is spent; a
\* stream whose output was clean ends the loop with success; a recovery
\* that returns is followed by the next stream; a failed result is returned
\* only with the budget used up
ApLoopStep ==
    InApLoop
    => /\ tp_streams' + restart_calls' = tp_streams + restart_calls + 1
       /\ (main_pc = "ap_real" /\ clean')
          => (main_pc' = "rate_head" /\ tp_result' = "ok")
       /\ (main_pc = "ap_real" /\ main_pc' = "rate_head")
          => \/ tp_result' = "ok"
             \/ /\ tp_result' = "fail"
                /\ outer_try = 3
                /\ recover_try = IF mode_cfg.direction = "TX" THEN 2 ELSE 0
       /\ (main_pc = "ap_recover" /\ ~pending_exc')
          => (main_pc' = "ap_real" /\ recover_try' = recover_try + 1)

IterationEffects ==
    <<sessions, linkVars, histVars, restart_calls, tp_streams, moduleVars>>

\* the step the orchestrator takes in a 2.4 GHz iteration of another width
SkipStep ==
    (main_pc = "iter" /\ band = "2G" /\ bw # 20) =>
        (main_pc' = "loop" /\ UNCHANGED IterationEffects)

\* C33: with band 2G, an iteration whose width is not 20 is skipped: its
\* only step goes back to the loop head and changes neither the sessions
\* nor anything a device command would change, and the orchestrator is
\* never inside the body of such an iteration, so no TestPoint of it runs.
C33_Guardrail2G ==
    /\ [](band = "2G" /\ bw # 20 =>
            main_pc \in {"loop", "iter", "done"} /\ sessions = {})
    /\ [][SkipStep]_vars

\* a 2.4 GHz iteration of width 40 or 80 has been skipped
C33_Witness ==
    band = "2G" /\ bw # 20 /\ ci >= 1 /\ main_pc = "loop"


\* the phase (phy) each entry of a rate plan belongs to, in sweep order
RECURSIVE PhasesInOrder(_)
PhasesInOrder(p) ==
    IF p = <<>> THEN <<>>
    ELSE [k \in 1..Len(Head(p).rates) |-> Head(p).phy]
         \o PhasesInOrder(Tail(p))

\* the 2g_rate command of a phase: the HT form with --sgi --ldpc for 11n,
\* the legacy form for 11g (OFDM) and 11b (CCK)
PhaseCmd(phy, value) ==
    IF phy = "11n"
      THEN [flag |-> "-h", value |-> value, bw |-> 20,
            sgi |-> TRUE, ldpc |-> TRUE]
      ELSE [flag |-> "-r", value |-> value, bw |-> 20,
            sgi |-> FALSE, ldpc |-> FALSE]

\* the rate lock of the current 2.4 GHz TestPoint has been applied
Locked2G ==
    /\ band = "2G"
    /\ main_pc \in {"ap_warmup", "ap_logger", "ap_real", "ap_recover",
                    "sta_real"}

\* C35: for every entry of the 2.4 GHz plan the rate-lock command of its
\* TestPoint, which the runners build from the rate value alone, has the
\* form of the phase the entry belongs to, and the value's class is the
\* phase.
C35_LockUsesPhase ==
    Locked2G =>
        LET phy == PhasesInOrder(RATE_SWEEP_2G_PLAN)[mi] IN
        /\ wl_2g_rate_cmd(mcs, 20) = PhaseCmd(phy, mcs)
        /\ set_rate_2g_from_value(mcs) = phy


\* the link steps of run_iperf_sta in the order the claim gives them
RxStepOrder == <<"sta_prepare", "soft_reconnect", "hard_recover">>

\* the steps taken are the first ones of the order, and each step but the
\* last one taken has failed
TriedInOrder(t) ==
    /\ Len(t) <= 3
    /\ \A k \in DOMAIN t : t[k].step = RxStepOrder[k]
    /\ \A k \in DOMAIN t : k < Len(t) => ~t[k].ok

InStaRx == mode = "STA_RX"

\* the step of an STA_RX TestPoint in which its link steps are taken
StaRxLinkStep ==
    (InStaRx /\ main_pc = "runner" /\ main_pc' # "runner") =>
        /\ sta_tried' # <<>>
        /\ IF sta_tried'[Len(sta_tried')].ok
             THEN main_pc' = "sta_lock"
             ELSE /\ Len(sta_tried') = 3
                  /\ tp_result' = "skipped"
                  /\ main_pc' = "rate_head"
                  /\ logs' = logs /\ runs' = runs
                  /\ tp_streams' = tp_streams

\* C36: in an STA_RX TestPoint the rate lock and the throughput run are
\* reached only with the link found connected by sta_prepare, else by the
\* soft reconnect, else by the hard recovery, each later step taken only
\* after the earlier one failed; when all three fail the TestPoint is
\* skipped, no log is created and no throughput command is issued.
C36_RxLinkLadder ==
    /\ [](InStaRx =>
            /\ TriedInOrder(sta_tried)
            /\ main_pc \in {"sta_lock", "sta_real"} =>
                  sta_tried # <<>> /\ sta_tried[Len(sta_tried)].ok)
    /\ [][StaRxLinkStep]_vars

\* after a TestPoint that was skipped, a later one is run on a link that
\* only the hard recovery brought back
C36_Witness ==
    /\ InStaRx /\ main_pc = "sta_real" /\ skips = 1
    /\ Len(sta_tried) = 3


\* the orchestrator is between two iterations, or has ended
BetweenIterations == main_pc \in {"loop", "iter", "done", "aborted"}

\* C37: when an iteration of the main loop ends, normally or with an
\* exception pending, its finally clause leaves no controller session
\* open, so that no session is open between iterations, at the start of an
\* iteration, or after main() has ended.
C37_SessionsClosed ==
    /\ [](BetweenIterations => sessions = {})
    /\ [][main_pc = "finally" => sessions' = {}]_vars

\* an STA_RX iteration whose controllers asus_ap and asus_pc were both
\* connected was ended by an exception of a rate lock, and nothing is open
C37_Witness ==
    /\ main_pc = "aborted" /\ sessions = {}
    /\ mode = "STA_RX" /\ abort_at = "rx_rate_lock"

(***************************************************************************)
(* Claims about the GUI and the environment tool (checked under SpecGui)   *)
(***************************************************************************)

\* C5: an environment tool that fails at its final dry-run stage ends with a
\* non-zero exit status and without having printed READY; and once the GUI
\* has been told of that failure the run is over: the Stop button is
\* disabled, no worker is held, and no main.py process is launched until
\* Start begins another run.
C5_NoSweepAfterDryrunFailure ==
    /\ \A i \in DOMAIN envs :
          envs[i].failed_at = "dryrun" => (envs[i].code = 1 /\ ~envs[i].ready)
    /\ dryrun_fail_seen => (~stop_enabled /\ worker = 0)
    /\ ~launched_after_fail

\* The GUI has been told of a tool that failed at the dry-run, after an
\* earlier phase of the same run had launched main.py.
C5_Witness ==
    /\ dryrun_fail_seen
    /\ \E i \in DOMAIN envs :
          envs[i].failed_at = "dryrun" /\ envs[i].pc = "delivered"
    /\ \E j \in DOMAIN workers : workers[j].state = "delivered"

(***************************************************************************)
(* Claims about the device control clients (checked under SpecExec)        *)
(***************************************************************************)

\* positions of the events of one kind in the trace of the current call
EvAt(op) == {k \in DOMAIN exec_trace : exec_trace[k].op = op}

\* a reconnect: a session is opened right after a handle was closed
Reconnects == {k \in EvAt("connect") : k > 1 /\ exec_trace[k-1].op = "close"}

C17_DryrunFailureIsFatal ==
    \A i \in DOMAIN envs :
        (envs[i].dryrun = "failed" /\ envs[i].pc \in {"exited", "delivered"})
        => (~envs[i].ready /\ envs[i].code # 0)

\* a main.py process is launched in this step, with the bench prepared for
\* it: the most recent run of the environment tool has ended with status 0,
\* the GUI has been told so, and it was a preparation for the role the
\* launched phase needs
LaunchPrepared ==
    Len(workers') > Len(workers) =>
        LET w == workers'[Len(workers')]
            n == Len(envs')
        IN /\ n > 0
           /\ envs'[n].pc = "delivered"
           /\ envs'[n].code = 0
           /\ envs'[n].target = env_target_for_phase_mode(w.mode)

\* C18: a sweep phase is launched only when the most recent environment
\* preparation completed successfully for the role the phase needs; after a
\* failed or killed preparation no phase starts until a later preparation
\* has succeeded.
C18_LaunchOnlyWhenPrepared == [][LaunchPrepared]_vars

\* the first run was started in mode ALL and all its phases have ended well
AllPhasesDone ==
    /\ runs_started = 1
    /\ phase_seq = GUI_MODE_SEQ["ALL"]
    /\ phase_idx = Len(phase_seq)

\* one step of the GUI: the tool is started exactly for a phase whose role
\* differs from the prepared one, and a phase is launched with its role
\* being the prepared one
PrepareIffRoleDiffers ==
    /\ Len(envs') > Len(envs) =>
          /\ Len(workers') = Len(workers)
          /\ envs'[Len(envs')].target # current_env_target
          /\ envs'[Len(envs')].target =
                env_target_for_phase_mode(envs'[Len(envs')].phase)
    /\ Len(workers') > Len(workers) =>
          /\ Len(envs') = Len(envs)
          /\ current_env_target' =
                env_target_for_phase_mode(workers'[Len(workers')].mode)

\* C19: the phases of a composite mode are launched in the order of its list
\* of base modes; the environment tool is started before a phase if and only
\* if the role the phase needs differs from the prepared one; and a run of
\* ALL on an unprepared bench that goes through starts the tool exactly
\* twice, for "ap" before STA_TX and for "sta" before AP_TX.
C19_PrepareOnRoleChange ==
    /\ [](runs_started = 1 =>
            \A j \in DOMAIN workers :
                j <= Len(phase_seq) /\ workers[j].mode = phase_seq[j])
    /\ [](AllPhasesDone =>
            /\ [j \in DOMAIN workers |-> workers[j].mode]
                  = <<"STA_TX", "STA_RX", "AP_TX", "AP_RX">>
            /\ [i \in DOMAIN envs |-> <<envs[i].target, envs[i].phase>>]
                  = << <<"ap", "STA_TX">>, <<"sta", "AP_TX">> >>)
    /\ [][PrepareIffRoleDiffers]_vars

\* A first run in mode ALL has gone through all four phases.
C19_Witness ==
    /\ AllPhasesDone
    /\ Len(workers) = 4
    /\ \A j \in DOMAIN workers : workers[j].state = "delivered"

\* C25: in the environment verification, for both target roles, the ping
\* and the throughput dry run are directed at the same endpoint, and that
\* endpoint is the throughput server the sweep then uses for that role.
C25_SameVerifyEndpoint ==
    \A i \in DOMAIN envs :
        envs[i].dryrun # "none"
        => /\ envs[i].ping_dst = envs[i].dryrun_dst
           /\ envs[i].dryrun_dst = server_ip(envs[i].phase)

(***************************************************************************)
(* Claims about the AP bring-up (checked under SpecAp)                     *)
(***************************************************************************)

\* the bring-up leaves the wait for the daemon
LeavesWait == ap_pc = "wait" /\ ap_pc' # "wait"

\* C27: the AP bring-up (5 GHz and 2.4 GHz) returns a result with status OK
\* only if, after the daemon was started in this bring-up, a poll within the
\* bounded wait saw the control socket and state=ENABLED; when no poll saw
\* that before the deadline, the bring-up raises and returns no result.
C27_ReadyOnlyWhenEnabled ==
    /\ [](ap_info = "OK"
          => /\ hostapd_started
             /\ ready_seen /\ enabled_seen
             /\ ap_polls \in 1..MaxPolls)
    /\ [][LeavesWait
          => IF ready_seen' /\ enabled_seen'
               THEN ap_pc' = "returned" /\ ap_info' = "OK"
               ELSE ap_pc' = "raised" /\ ap_info' = "error"]_vars

\* a 2.4 GHz bring-up whose second poll saw the daemon enabled
C27_Witness ==
    /\ ap_band = "2G" /\ ap_info = "OK" /\ ap_polls = 2
    /\ hostapd_started /\ enabled_seen

\* C28: in the 5 GHz bring-up the driver-level channel lock makes at most 3
\* apply-and-verify attempts, succeeds only after an attempt whose read-back
\* token matched, and raises after 3 attempts that did not match; the daemon
\* configuration is patched and the daemon is started only after the lock
\* has succeeded, never before it and never after a failed lock.
C28_LockBeforeDaemon ==
    /\ []( /\ cs_attempt <= 3
           /\ ap_pc = "chanspec" => cs_attempt < 3
           /\ (ap_band = "5G" /\ ap_pc \in {"conf", "start", "wait", "returned"})
              => (cs_matched /\ match(last_raw, ap_bw, ap_ch))
           /\ (ap_band = "5G" /\ (conf_patched \/ hostapd_started))
              => cs_matched )
    /\ [][(ap_pc = "chanspec" /\ ap_pc' = "raised")
          => (cs_attempt' = 3 /\ ~cs_matched' /\ ap_info' = "error")]_vars

\* the third attempt matched and the daemon was then started
C28_Witness ==
    /\ ap_band = "5G" /\ cs_attempt = 3 /\ cs_matched
    /\ conf_patched /\ hostapd_started

\* the decimal digits of a natural number
RECURSIVE IntDigits(_)
IntDigits(n) ==
    LET d == CHOOSE c \in DOMAIN DigitVal : DigitVal[c] = n % 10
    IN IF n < 10 THEN <<d>> ELSE Append(IntDigits(n \div 10), d)

\* the tokens the stated rule accepts for width w and channel c
TokenAccepted(token, w, c) ==
    CASE w = 20 -> token = IntDigits(c)
      [] w = 40 -> token \in {IntDigits(c) \o <<"l">>, IntDigits(c) \o <<"u">>}
      [] w = 80 -> /\ DigitPrefixLen(token) > 0
                   /\ PyInt(SubSeq(token, 1, DigitPrefixLen(token))) = c
      [] OTHER -> FALSE

\* C29: the channel-lock verification accepts a read-back token exactly as
\* follows: for width 20 only the token that is exactly the requested
\* channel number, for width 40 only the requested channel followed by a
\* lower/upper sideband marker, for width 80 only a token whose leading
\* channel number is the requested channel; every other token is rejected.
C29_TokenAcceptance ==
    (ap_band = "5G" /\ cs_attempt >= 1 /\ last_raw # <<>>)
    => (match(last_raw, ap_bw, ap_ch)
        <=> TokenAccepted(last_raw, ap_bw, ap_ch))

(***************************************************************************)
(* Claims about the STA bring-up (checked under SpecPrep)                  *)
(***************************************************************************)

\* "iw <iface> link" reported an association
LinkReportsAssociation(output) == output = LinkConnected

\* what one step of sta_prepare keeps to
PrepStep ==
    /\ (prep_pc = "assign_ip" /\ info_connected) => prep_result' = "returned"
    /\ prep_result' = "raised"
       => (prep_attempt = retry /\ ~info_connected')

\* C30: sta_prepare returns a result only when the link polling of some
\* attempt reported an association within its bounded wait; the static
\* address is applied only after that attempt's link wait, and a failing
\* address command does not fail the bring-up; each attempt first kills any
\* running supplicant, and after retry attempts without association the
\* bring-up raises.
C30_ReadyOnlyWhenAssociated ==
    /\ []( /\ prep_result = "returned"
              => /\ info_connected
                 /\ LinkReportsAssociation(link_raw)
                 /\ link_polls \in 1..MaxLinkPolls
           /\ ip_applied => prep_pc \in {"returned", "raised"}
           /\ prep_pc \in {"start_wpa", "wait_link", "assign_ip"}
              => prep_killed
           /\ prep_attempt \in 1..retry )
    /\ [][PrepStep]_vars


(***************************************************************************)
(* Claims about the order of the steps of the environment tool             *)
(***************************************************************************)

\* the step named x has been taken in the history st
Did(st, x) == \E k \in DOMAIN st : st[k] = x

\* every occurrence of y in st has an occurrence of x before it
Before(st, x, y) ==
    \A k \in DOMAIN st : st[k] = y => \E j \in 1..(k - 1) : st[j] = x

PeerCmds == {"nvram_restore", "reboot"}

\* C31: in every run of the environment tool the DUT Wi-Fi reset is the
\* first step; when the peer is to become STA, the DUT AP-ready check has
\* passed before the restore command (and the reboot) is sent to the peer;
\* a run that failed in the AP-ready check has sent the peer neither.
C31_ApReadyBeforeRestore ==
    \A i \in DOMAIN envs :
        LET st == envs[i].steps IN
        /\ st # <<>> => st[1] = "dut_reset"
        /\ envs[i].pc \notin {"soft_reset", "exited", "delivered"} =>
              Did(st, "dut_reset")
        /\ envs[i].failed_at \notin {"", "killed"} => Did(st, "dut_reset")
        /\ envs[i].target = "sta" =>
              \A c \in PeerCmds : Before(st, "dut_ap_ready", c)
        /\ envs[i].failed_at = "ensure_dut_ap" =>
              \A c \in PeerCmds : ~Did(st, c)

\* a run towards sta has sent the restore command, and another run has
\* failed in the AP-ready check
C31_Witness ==
    /\ \E i \in DOMAIN envs :
          envs[i].target = "sta" /\ Did(envs[i].steps, "nvram_restore")
    /\ \E i \in DOMAIN envs : envs[i].failed_at = "ensure_dut_ap"

\* C32: when the peer becomes AP, the station supplicant is started only
\* after a scan found the network name; a run that failed at the scan
\* deadline started no supplicant and saw no association; a run that did
\* not see the association before the deadline fails, so that the data
\* plane is verified only after an association was seen.
C32_ScanBeforeSupplicant ==
    \A i \in DOMAIN envs :
        LET st == envs[i].steps IN
        envs[i].target = "ap" =>
          /\ Before(st, "scan_found", "wpa_supplicant")
          /\ Before(st, "wpa_supplicant", "associated")
          /\ envs[i].failed_at = "scan" =>
                ~Did(st, "wpa_supplicant") /\ ~Did(st, "associated")
          /\ envs[i].failed_at \in {"scan", "assoc"} =>
                envs[i].code = 1 /\ ~envs[i].ready
          /\ (envs[i].ping_dst # "" \/ envs[i].ready) => Did(st, "associated")

\* one run failed at the scan deadline and another one saw the association
C32_Witness ==
    /\ \E i \in DOMAIN envs : envs[i].failed_at = "scan"
    /\ \E i \in DOMAIN envs :
          envs[i].target = "ap" /\ Did(envs[i].steps, "associated")


(***************************************************************************)
(* Claims about run_mssh_stream (checked under SpecStream)                 *)
(***************************************************************************)

\* the ways the signals can have been sent: none, SIGTERM by the finally
\* clause, SIGTERM again and then SIGKILL by _kill_process_tree
SignalHistories ==
    {<<>>, <<"SIGTERM">>, <<"SIGTERM", "SIGTERM">>,
     <<"SIGTERM", "SIGTERM", "SIGKILL">>}

\* what the generator does in one step: after the for loop was left no line
\* is yielded, and the finally clause sends SIGTERM when the process has
\* not exited
StreamStep ==
    /\ st_leave # "none" => st_yielded' = st_yielded
    /\ (st_pc = "finally" /\ st_p # "exited" /\ st_pc' # st_pc) =>
          st_signals' = <<"SIGTERM">>

\* C34 as stated: on every way of leaving the stream the process group is
\* sent SIGTERM (followed by the forced kill), and the process is not alive
\* once the stream is finished.
C34_AsStated ==
    st_pc = "finished" =>
        /\ st_signals # <<>> /\ st_signals[1] = "SIGTERM"
        /\ st_p = "exited"

\* C34 (amended): the lines are yielded in the order printed without a gap;
\* no line is yielded once the cancel signal was seen set (or the loop was
\* left in another way); signals are sent only after the loop was left and
\* only to a process that had not exited: SIGTERM first, and SIGKILL only
\* after a second SIGTERM and two waits; when the generator is finished the
\* process has exited.
C34_StreamContract ==
    /\ [](/\ \A k \in DOMAIN st_yielded : st_yielded[k] = k
          /\ st_signals \in SignalHistories
          /\ st_leave = "none" => st_signals = <<>>
          /\ st_pc = "finished" => st_p = "exited")
    /\ [][StreamStep]_vars

\* a stream that yielded a line, was cancelled, and whose process had to be
\* killed with SIGKILL
C34_Witness ==
    /\ st_pc = "finished" /\ st_leave = "cancel" /\ st_yielded # <<>>
    /\ st_signals = <<"SIGTERM", "SIGTERM", "SIGKILL">>


(***************************************************************************)
(* Claims about Stop and late finished signals (checked under SpecGui)     *)
(***************************************************************************)

\* a step that creates a main.py process or an environment tool
StartsProcess ==
    Len(workers') > Len(workers) \/ Len(envs') > Len(envs)

\* C38: from the click on Stop until the next click on Start that starts a
\* run, no step creates a main.py process or an environment tool, whatever
\* the exit code of the stopped process and whenever its finished signal
\* is delivered.
C38_NoStartAfterStop ==
    [][(stop_requested /\ stop_requested') => ~StartsProcess]_vars

\* the finished signal of worker j, which belongs to an earlier run than
\* the current one, is delivered in this step
StaleWorkerSignal ==
    \E j \in DOMAIN workers :
        /\ workers[j].state = "exited" /\ workers'[j].state = "delivered"
        /\ workers[j].run < runs_started

\* the same for an environment tool
StaleEnvSignal ==
    \E i \in DOMAIN envs :
        /\ envs[i].pc = "exited" /\ envs'[i].pc = "delivered"
        /\ envs[i].run < runs_started

\* the tracking of the current run: its worker, its env_preparing flag,
\* its phase index and the Start button
RunTracking == <<worker, env_preparing, phase_idx, start_enabled>>

\* C39: the delivery of the finished signal of a process of an earlier,
\* stopped run changes nothing of the tracking of the run started after it:
\* neither worker nor env_preparing, nor the phase index, nor whether Start
\* is enabled.
C39_StaleSignalIsInert ==
    [][(StaleWorkerSignal \/ StaleEnvSignal) => UNCHANGED RunTracking]_vars


\* C40: the AP bring-up returns status OK only if the primary channel read
\* from the radio after the daemon became enabled is the requested channel;
\* a bring-up whose observed channel differs from the requested one, or
\* could not be read, is not reported as OK.
C40_OkOnlyOnRequestedChannel ==
    ap_info = "OK" => (wl_primary # 0 /\ wl_primary = ap_ch)

====
